---------------------------- MODULE Spec2Model ----------------------------
(***************************************************************************)
(* Model of the resume scoring engine                                      *)
(* (backend/app/services/scoring_engine.py, class ScoringEngine) and of    *)
(* its batch caller.                                                       *)
(*                                                                         *)
(* Numbers.  The engine computes with Python floats.  The model computes   *)
(* with exact rationals <<n, d>> (d > 0, lowest terms), so that weights    *)
(* such as 0.35/1.45 and products such as 80*0.95 are represented without  *)
(* loss; a score of 72.5 is <<145, 2>>.                                    *)
(*                                                                         *)
(* Strings.  Skill names, job texts and dates are TLA+ strings; Python's   *)
(* lower(), strip() and the substring test `a in b` are modelled by tables *)
(* over the strings that occur in the model (Lower, Strip, SubstringOf).   *)
(***************************************************************************)
EXTENDS Integers, Sequences, FiniteSets, TLC

VARIABLES
    engine,             \* the ScoringEngine instance's tables (set by __init__)
    call,               \* function-level harness: the function applied, its arguments and its value
    jobAnalysis,        \* score_multiple_resumes: the job profile of the batch
    resumeDataList,     \* the submitted resumes, in order
    resultsList,        \* the `results` list of the batch
    successfulCount,    \* the calls of score_resume_against_job that returned
    calls,              \* the calls of score_resume_against_job made so far, with what they returned
    batchResult,        \* the dict returned by score_multiple_resumes (<<>> until it returns)
    pc                  \* "idle", "scoring" (in the loop over the resumes) or "done"

batch_vars == <<jobAnalysis, resumeDataList, resultsList, successfulCount, calls,
                batchResult, pc>>

vars == <<engine, call, batch_vars>>

-----------------------------------------------------------------------------
(* Exact rational arithmetic                                               *)

RECURSIVE GCD(_, _)
GCD(a, b) == IF b = 0 THEN a ELSE GCD(b, a % b)

Abs(x) == IF x < 0 THEN -x ELSE x

\* the rational n/d (d # 0) in lowest terms with a positive denominator
R(n, d) ==
    LET g == GCD(Abs(n), Abs(d))
        s == IF d < 0 THEN -1 ELSE 1
    IN  <<(s * n) \div g, (s * d) \div g>>

I(k) == <<k, 1>>
RAdd(a, b) == R(a[1] * b[2] + b[1] * a[2], a[2] * b[2])
RSub(a, b) == R(a[1] * b[2] - b[1] * a[2], a[2] * b[2])
RMul(a, b) == R(a[1] * b[1], a[2] * b[2])
RDiv(a, b) == R(a[1] * b[2], a[2] * b[1])
RLe(a, b) == a[1] * b[2] <= b[1] * a[2]
RLt(a, b) == a[1] * b[2] < b[1] * a[2]
RGe(a, b) == RLe(b, a)
RGt(a, b) == RLt(b, a)
RMin(a, b) == IF RLe(a, b) THEN a ELSE b
RMax(a, b) == IF RGe(a, b) THEN a ELSE b

\* sum of f[k] over the keys k of the function (dict) f
RECURSIVE RSum(_)
RSum(f) ==
    IF DOMAIN f = {} THEN I(0)
    ELSE LET k == CHOOSE x \in DOMAIN f : TRUE
         IN  RAdd(f[k], RSum([x \in DOMAIN f \ {k} |-> f[x]]))

\* sum of the entries of a sequence of rationals
RECURSIVE RSumSeq(_)
RSumSeq(s) == IF s = <<>> THEN I(0) ELSE RAdd(Head(s), RSumSeq(Tail(s)))

\* Python's round(x, 1) on a non-negative value, in tenths, ties to even
Round1(x) ==
    LET n10 == x[1] * 10
        q   == n10 \div x[2]
        r2  == 2 * (n10 % x[2])
        up  == \/ r2 > x[2]
               \/ r2 = x[2] /\ q % 2 = 1
    IN  R(IF up THEN q + 1 ELSE q, 10)

-----------------------------------------------------------------------------
(* The role archetypes and the engine's tables (ScoringEngine.__init__)    *)

Roles == {"frontend_developer", "backend_developer", "fullstack_developer",
          "devops_engineer", "data_scientist", "mobile_developer",
          "general_developer"}

\* a role name that no table knows (the .get(...) defaults apply)
UnknownRole == "unknown_role"

\* a dict of hundredths as a dict of rationals
Hundredths(f) == [k \in DOMAIN f |-> R(f[k], 100)]
Tenths(f) == [k \in DOMAIN f |-> R(f[k], 10)]

base_weights_init ==
    Hundredths([required_skills |-> 40, experience |-> 30, education |-> 20,
                additional_qualifications |-> 10])

\* A Python dict whose order matters is a sequence of <<key, value>> items.
\* The items of a dict literal of hundredths, as rationals:
HundredthItems(items) == [i \in 1..Len(items) |-> <<items[i][1], R(items[i][2], 100)>>]

\* the values of a sequence of items, and the value of a key
Values(items) == [i \in 1..Len(items) |-> items[i][2]]
Keys(items) == {items[i][1] : i \in 1..Len(items)}
ItemValue(items, k) == items[CHOOSE i \in 1..Len(items) : items[i][1] = k][2]

role_specific_weights_init ==
    [fullstack_developer |-> HundredthItems(<<
        <<"programming_languages", 25>>, <<"web_frameworks", 30>>,
        <<"databases", 20>>, <<"cloud_platforms", 15>>, <<"devops_tools", 10>>,
        <<"frontend_tools", 15>>, <<"data_tools", 5>>,
        <<"version_control", 5>>, <<"testing_tools", 5>>>>),
     frontend_developer |-> HundredthItems(<<
        <<"web_frameworks", 35>>, <<"programming_languages", 25>>,
        <<"frontend_tools", 30>>, <<"databases", 5>>,
        <<"cloud_platforms", 10>>, <<"devops_tools", 5>>,
        <<"version_control", 10>>, <<"testing_tools", 10>>>>),
     backend_developer |-> HundredthItems(<<
        <<"programming_languages", 35>>, <<"databases", 30>>,
        <<"web_frameworks", 25>>, <<"cloud_platforms", 20>>,
        <<"devops_tools", 15>>, <<"frontend_tools", 2>>,
        <<"version_control", 8>>, <<"testing_tools", 10>>>>),
     data_scientist |-> HundredthItems(<<
        <<"data_tools", 45>>, <<"programming_languages", 30>>,
        <<"databases", 25>>, <<"cloud_platforms", 15>>,
        <<"web_frameworks", 5>>, <<"project_management", 10>>,
        <<"testing_tools", 5>>, <<"version_control", 5>>>>),
     devops_engineer |-> HundredthItems(<<
        <<"devops_tools", 40>>, <<"cloud_platforms", 35>>,
        <<"programming_languages", 20>>, <<"databases", 10>>,
        <<"web_frameworks", 5>>, <<"testing_tools", 8>>,
        <<"version_control", 12>>>>),
     mobile_developer |-> HundredthItems(<<
        <<"mobile_development", 40>>, <<"programming_languages", 30>>,
        <<"databases", 15>>, <<"cloud_platforms", 15>>,
        <<"web_frameworks", 10>>, <<"testing_tools", 10>>,
        <<"version_control", 5>>>>),
     general_developer |-> HundredthItems(<<
        <<"programming_languages", 25>>, <<"web_frameworks", 20>>,
        <<"databases", 15>>, <<"cloud_platforms", 12>>, <<"devops_tools", 10>>,
        <<"frontend_tools", 10>>, <<"testing_tools", 5>>,
        <<"version_control", 3>>>>)]

\* the literal default of _get_role_specific_weights_fixed for an unknown role
default_role_weights ==
    HundredthItems(<<
        <<"programming_languages", 25>>, <<"web_frameworks", 20>>,
        <<"databases", 15>>, <<"cloud_platforms", 12>>, <<"devops_tools", 10>>,
        <<"frontend_tools", 10>>, <<"testing_tools", 5>>,
        <<"version_control", 3>>>>)

red_flag_patterns_init ==
    [job_hopping        |-> [threshold |-> 3,  penalty |-> R(15, 100)],
     employment_gaps    |-> [threshold |-> 6,  penalty |-> R(8, 100)],
     over_qualification |-> [threshold |-> 15, penalty |-> R(5, 100)],
     skill_inconsistency |-> [threshold |-> 3, penalty |-> R(12, 100)]]

-----------------------------------------------------------------------------
(* ScoreAggregator                                                         *)

\* _get_role_weight_adjustments: multipliers on the four pillars
role_adjustments_table ==
    [frontend_developer  |-> Tenths([skills_multiplier |-> 13, experience_multiplier |-> 9,
                                     education_multiplier |-> 8, additional_multiplier |-> 12]),
     backend_developer   |-> Tenths([skills_multiplier |-> 12, experience_multiplier |-> 11,
                                     education_multiplier |-> 10, additional_multiplier |-> 9]),
     fullstack_developer |-> Tenths([skills_multiplier |-> 11, experience_multiplier |-> 11,
                                     education_multiplier |-> 9, additional_multiplier |-> 10]),
     devops_engineer     |-> Tenths([skills_multiplier |-> 14, experience_multiplier |-> 12,
                                     education_multiplier |-> 7, additional_multiplier |-> 8]),
     data_scientist      |-> Tenths([skills_multiplier |-> 11, experience_multiplier |-> 10,
                                     education_multiplier |-> 14, additional_multiplier |-> 11]),
     mobile_developer    |-> Tenths([skills_multiplier |-> 13, experience_multiplier |-> 10,
                                     education_multiplier |-> 9, additional_multiplier |-> 12])]

get_role_weight_adjustments(detected_role) ==
    IF detected_role \in DOMAIN role_adjustments_table
    THEN role_adjustments_table[detected_role]
    ELSE Tenths([skills_multiplier |-> 10, experience_multiplier |-> 10,
                 education_multiplier |-> 10, additional_multiplier |-> 10])

\* _calculate_role_fit_score
role_fit_multipliers ==
    [frontend_developer |-> Tenths([required_skills |-> 12, experience |-> 9, education |-> 8]),
     data_scientist     |-> Tenths([required_skills |-> 11, experience |-> 10, education |-> 13]),
     devops_engineer    |-> Tenths([required_skills |-> 13, experience |-> 11, education |-> 7])]

calculate_role_fit_score(role, scores) ==
    LET multipliers == IF role \in DOMAIN role_fit_multipliers
                       THEN role_fit_multipliers[role]
                       ELSE Tenths([required_skills |-> 10, experience |-> 10, education |-> 10])
        adjusted_skills     == RMul(scores.required_skills_score, multipliers.required_skills)
        adjusted_experience == RMul(scores.experience_score, multipliers.experience)
        adjusted_education  == RMul(scores.education_score, multipliers.education)
        role_fit == RDiv(RAdd(RAdd(adjusted_skills, adjusted_experience), adjusted_education), I(3))
    IN  RMin(I(100), role_fit)

\* the four base weights after the role's multipliers (not yet normalised)
adjusted_pillar_weights(detected_role) ==
    LET role_adjustments == get_role_weight_adjustments(detected_role)
    IN  [required_skills |-> RMul(engine.base_weights.required_skills,
                                  role_adjustments.skills_multiplier),
         experience |-> RMul(engine.base_weights.experience,
                             role_adjustments.experience_multiplier),
         education |-> RMul(engine.base_weights.education,
                            role_adjustments.education_multiplier),
         additional_qualifications |-> RMul(engine.base_weights.additional_qualifications,
                                            role_adjustments.additional_multiplier)]

\* variant: the adjusted weights are used as they are, not divided by their
\* total
normalize_weights_skipped(weights) == weights

\* "Normalize weights to sum to 1.0": divide by the total when it is positive
normalize_weights(weights) ==
    LET total_weight == RSum(weights)
    IN  IF RGt(total_weight, I(0))
        THEN [k \in DOMAIN weights |-> RDiv(weights[k], total_weight)]
        ELSE weights

\* variant: the penalised score is returned as computed, unclamped, from
\* weights that were not normalised
calculate_enhanced_weighted_scores_unclamped(detailed_scoring, red_flag_analysis, detected_role) ==
    LET w == adjusted_pillar_weights(detected_role)
        overall_score ==
            RAdd(RAdd(RMul(detailed_scoring.required_skills_score, w.required_skills),
                      RMul(detailed_scoring.experience_score, w.experience)),
                 RAdd(RMul(detailed_scoring.education_score, w.education),
                      RMul(detailed_scoring.additional_qualifications_score,
                           w.additional_qualifications)))
        p == red_flag_analysis.total_penalty
    IN  [overall_score |-> RMul(overall_score, RSub(I(1), p)),
         base_score |-> overall_score,
         red_flag_penalty |-> p,
         role_fit_score |-> calculate_role_fit_score(detected_role, detailed_scoring),
         adjusted_weights |-> w]

\* _calculate_enhanced_weighted_scores
calculate_enhanced_weighted_scores(detailed_scoring, red_flag_analysis, detected_role) ==
    LET required_skills == detailed_scoring.required_skills_score
        experience == detailed_scoring.experience_score
        education == detailed_scoring.education_score
        additional == detailed_scoring.additional_qualifications_score
        adjusted_weights == normalize_weights(adjusted_pillar_weights(detected_role))
        overall_score ==
            RAdd(RAdd(RMul(required_skills, adjusted_weights.required_skills),
                      RMul(experience, adjusted_weights.experience)),
                 RAdd(RMul(education, adjusted_weights.education),
                      RMul(additional, adjusted_weights.additional_qualifications)))
        red_flag_penalty == red_flag_analysis.total_penalty
        penalty_adjusted_score == RMul(overall_score, RSub(I(1), red_flag_penalty))
    IN  [overall_score |-> RMin(I(100), RMax(I(0), penalty_adjusted_score)),
         base_score |-> overall_score,
         red_flag_penalty |-> red_flag_penalty,
         role_fit_score |-> calculate_role_fit_score(detected_role, detailed_scoring),
         adjusted_weights |-> adjusted_weights]

-----------------------------------------------------------------------------
(* Strings: str.lower(), str.strip() and the substring test, as tables     *)
(* over the strings of the model                                           *)

\* s.lower() of the model's strings that are not already lower-case
LowerTable ==
    ("Physics" :> "physics") @@
    ("PMP" :> "pmp") @@
    ("Angular" :> "angular") @@
    ("Django" :> "django") @@
    ("Software Engineer  " :> "software engineer  ") @@
    ("Full Stack Engineer  " :> "full stack engineer  ") @@
    ("Engineer for frontend and backend  " :> "engineer for frontend and backend  ") @@
    ("AWS Certified Developer" :> "aws certified developer") @@
    ("AWS Certified" :> "aws certified") @@
    ("Computer Science" :> "computer science") @@
    ("Developer [] [] Developer [] [] Developer [] []" :>
      "developer [] [] developer [] [] developer [] []") @@
    ("Full Stack Engineer Own features end to end mid" :>
      "full stack engineer own features end to end mid") @@
    ("JavaScript" :> "javascript") @@
    ("Python" :> "python") @@
    ("Senior Python Developer Build REST API services with Django senior" :>
      "senior python developer build rest api services with django senior") @@
    (
      "Tech Lead ['Led team of 5 engineers', 'Reduced latency by 40%'] ['python'] Developer [] ['django']"
      :>
      "tech lead ['led team of 5 engineers', 'reduced latency by 40%'] ['python'] developer [] ['django']"
      )

\* s.strip() of the model's strings that have surrounding blanks
StripTable ==
    ("  " :> "") @@
    (" python " :> "python")

\* the pairs <<a, b>> of the model's strings with a a proper substring of b
ProperSubstrings ==
    {
    <<"backend", "engineer for frontend and backend  ">>,
    <<"frontend", "engineer for frontend and backend  ">>,
    <<"frontend and backend", "engineer for frontend and backend  ">>,
    <<"full stack", "full stack engineer  ">>,
    <<" python ", "senior python developer build rest api services with django senior">>,
    <<"ai", "containerization">>, <<"ai", "rails">>, <<"ai", "tailwind">>, <<"api", "fastapi">>,
    <<"api", "senior python developer build rest api services with django senior">>,
    <<"aws", "aws certified">>, <<"aws", "aws certified developer">>,
    <<"aws certified", "aws certified developer">>, <<"css", "scss">>,
    <<"django", "senior python developer build rest api services with django senior">>,
    <<"django", "tech lead ['led team of 5 engineers', 'reduced latency by 40%'] ['python'] developer [] ['django']">>,
    <<"end to end", "full stack engineer own features end to end mid">>,
    <<"full stack", "full stack engineer own features end to end mid">>, <<"gap", "2022-02 gap">>,
    <<"go", "django">>, <<"go", "golang">>,
    <<"go", "senior python developer build rest api services with django senior">>,
    <<"go", "tech lead ['led team of 5 engineers', 'reduced latency by 40%'] ['python'] developer [] ['django']">>,
    <<"java", "javascript">>, <<"js", "jsx">>, <<"js", "node.js">>, <<"js", "nodejs">>,
    <<"led team", "tech lead ['led team of 5 engineers', 'reduced latency by 40%'] ['python'] developer [] ['django']">>,
    <<"ml", "html">>, <<"mobile", "mobile app">>, <<"mobile", "mobile development">>,
    <<"postgres", "postgresql">>, <<"python", " python ">>,
    <<"python", "senior python developer build rest api services with django senior">>,
    <<"python", "tech lead ['led team of 5 engineers', 'reduced latency by 40%'] ['python'] developer [] ['django']">>,
    <<"react", "react native">>,
    <<"reduced", "tech lead ['led team of 5 engineers', 'reduced latency by 40%'] ['python'] developer [] ['django']">>,
    <<"rest", "restful">>,
    <<"rest", "senior python developer build rest api services with django senior">>,
    <<"spring", "spring boot">>, <<"sql", "postgresql">>,
    <<"tech lead", "tech lead ['led team of 5 engineers', 'reduced latency by 40%'] ['python'] developer [] ['django']">>,
    <<"ui", "material-ui">>,
    <<"ui", "senior python developer build rest api services with django senior">>
    }

\* the greatest number found by the team-size pattern of
\* _analyze_leadership_experience in a lower-cased experience text
TeamSizeTable ==
    (
      "tech lead ['led team of 5 engineers', 'reduced latency by 40%'] ['python'] developer [] ['django']"
      :> 5)

\* the number of matches of (\d+)% in an experience text
PercentageMatchesTable ==
    (
      "Tech Lead ['Led team of 5 engineers', 'Reduced latency by 40%'] ['python'] Developer [] ['django']"
      :> 1)

\* the number of matches of the money pattern in a lower-cased experience text
MoneyMatchesTable == <<>>

\* _extract_quantified_achievements of an experience text, where not empty
QuantifiedAchievementsTable ==
    (
      "Tech Lead ['Led team of 5 engineers', 'Reduced latency by 40%'] ['python'] Developer [] ['django']"
      :> <<
      "Tech Lead ['Led team of 5 engineers', 'Reduced latency by 40%'] ['python'] Developer [] ['django']"
      >>)

\* the slice from the first '{' to the last '}' of a string that has one
FindJsonTable ==
    (
      "Profile: {\"experience_analysis\": {\"total_years\": 3}, \"skills_by_category\": {\"programming_languages\": [\"python\"]}}"
      :>
      "{\"experience_analysis\": {\"total_years\": 3}, \"skills_by_category\": {\"programming_languages\": [\"python\"]}}"
      ) @@
    ("{not json}" :> "{not json}")

\* json.loads of the slices that are JSON documents
JsonLoadsTable ==
    (
      "{\"experience_analysis\": {\"total_years\": 3}, \"skills_by_category\": {\"programming_languages\": [\"python\"]}}"
      :> [experience_analysis |-> [total_years |-> 3],
      skills_by_category |-> [programming_languages |-> <<[str |-> "python"]>>]])

\* s.title()
TitleTable ==
    ("basic" :> "Basic") @@
    ("cloud devops combo" :> "Cloud Devops Combo") @@
    ("container orchestration stack" :> "Container Orchestration Stack") @@
    ("django python stack" :> "Django Python Stack") @@
    ("excellent" :> "Excellent") @@
    ("exceptional" :> "Exceptional") @@
    ("fullstack breadth" :> "Fullstack Breadth") @@
    ("good" :> "Good") @@
    ("moderate" :> "Moderate") @@
    ("react javascript stack" :> "React Javascript Stack")

\* s.replace("_", " ")
ReplaceUnderscoreTable ==
    ("cloud_devops_combo" :> "cloud devops combo") @@
    ("container_orchestration_stack" :> "container orchestration stack") @@
    ("django_python_stack" :> "django python stack") @@
    ("fullstack_breadth" :> "fullstack breadth") @@
    ("react_javascript_stack" :> "react javascript stack")

\* s.lower()
Lower(s) == IF s \in DOMAIN LowerTable THEN LowerTable[s] ELSE s

\* s.strip()
Strip(s) == IF s \in DOMAIN StripTable THEN StripTable[s] ELSE s

\* Python's `a in b` on two strings
SubstringOf(a, b) == a = "" \/ a = b \/ <<a, b>> \in ProperSubstrings

\* dict.get(k, default)
Get(d, k, default) == IF k \in DOMAIN d THEN d[k] ELSE default

\* membership in a Python list
InList(x, list) == \E i \in 1..Len(list) : list[i] = x

-----------------------------------------------------------------------------
(* SkillNormalizer: skill_intelligence (synonyms, relationships)           *)

\* skill_intelligence["synonyms"], in the order of the dict literal
synonyms_init ==
    << <<"javascript", <<"js", "java script", "ecmascript", "javascript", "node", "nodejs">> >>,
       <<"python", <<"py", "python3", "python 3", "python">> >>,
       <<"react", <<"reactjs", "react.js", "react">> >>,
       <<"angular", <<"angularjs", "angular.js", "angular">> >>,
       <<"vue", <<"vuejs", "vue.js", "vue">> >>,
       <<"docker", <<"containerization", "docker">> >>,
       <<"kubernetes", <<"k8s", "kube", "kubernetes">> >>,
       <<"aws", <<"amazon web services", "amazon aws", "aws">> >>,
       <<"postgresql", <<"postgres", "postgresql", "postgre">> >>,
       <<"mysql", <<"mysql", "my sql">> >>,
       <<"mongodb", <<"mongo", "mongodb", "mongo db">> >>,
       <<"git", <<"github", "gitlab", "version control", "git">> >>,
       <<"html", <<"html5", "html">> >>,
       <<"css", <<"css3", "css", "cascading style sheets">> >>,
       <<"sql", <<"structured query language", "sql">> >>,
       <<"rest", <<"rest api", "restful", "rest">> >>,
       <<"graphql", <<"graph ql", "graphql">> >>,
       <<"typescript", <<"ts", "typescript">> >>,
       <<"java", <<"java">> >>,
       <<"csharp", <<"c#", "c sharp", "csharp", ".net">> >>,
       <<"php", <<"php">> >>,
       <<"ruby", <<"ruby on rails", "rails", "ruby">> >>,
       <<"golang", <<"go", "golang">> >>,
       <<"swift", <<"swift">> >>,
       <<"kotlin", <<"kotlin">> >> >>

\* skill_intelligence["relationships"]
relationships_init ==
    [react      |-> <<"javascript", "html", "css", "jsx", "redux", "webpack">>,
     angular    |-> <<"javascript", "typescript", "html", "css", "rxjs">>,
     vue        |-> <<"javascript", "html", "css", "vuex">>,
     django     |-> <<"python", "postgresql", "html", "css">>,
     flask      |-> <<"python", "html", "css", "sql">>,
     express    |-> <<"javascript", "nodejs", "mongodb">>,
     docker     |-> <<"kubernetes", "aws", "devops", "containerization">>,
     kubernetes |-> <<"docker", "aws", "devops", "microservices">>,
     aws        |-> <<"docker", "kubernetes", "devops", "cloud">>,
     postgresql |-> <<"sql", "database", "backend">>,
     mongodb    |-> <<"nosql", "database", "backend">>,
     git        |-> <<"github", "gitlab", "version control">>,
     python     |-> <<"django", "flask", "pandas", "numpy", "tensorflow">>,
     javascript |-> <<"react", "angular", "vue", "nodejs", "express">>,
     java       |-> <<"spring", "hibernate", "maven", "gradle">>]

\* variant: the synonym table is not consulted
normalize_skill_no_synonyms(skill) ==
    IF skill = "" THEN "" ELSE Strip(Lower(skill))

\* _normalize_skill: lower-case, strip, then the canonical name of the first
\* synonym list that contains the result
normalize_skill(skill) ==
    IF skill = "" THEN ""
    ELSE LET skill_lower == Strip(Lower(skill))
             syn == engine.skill_intelligence.synonyms
             hits == {i \in 1..Len(syn) : InList(skill_lower, syn[i][2])}
         IN  IF hits = {} THEN skill_lower
             ELSE syn[CHOOSE i \in hits : \A j \in hits : i <= j][1]

\* _skills_are_related: either skill lists the other in the relationship table
skills_are_related(skill1, skill2) ==
    LET relationships == engine.skill_intelligence.relationships
        skill1_relations == Get(relationships, skill1, <<>>)
        skill2_relations == Get(relationships, skill2, <<>>)
    IN  InList(skill2, skill1_relations) \/ InList(skill1, skill2_relations)

-----------------------------------------------------------------------------
(* SkillMatchScorer                                                        *)

\* variant: the role's table entry is normalised in place (no .copy(), the
\* normalised values written back into the entry)
role_specific_weights_after_aliased(detected_role) ==
    IF detected_role \in DOMAIN engine.role_specific_weights
    THEN LET w == engine.role_specific_weights[detected_role]
             total_weight == RSumSeq(Values(w))
         IN  [engine.role_specific_weights EXCEPT ![detected_role] =
                 [i \in 1..Len(w) |-> <<w[i][1], RDiv(w[i][2], total_weight)>>]]
    ELSE engine.role_specific_weights

\* the engine's role table after _get_role_specific_weights_fixed: the entry
\* is copied (.copy()) and the normalised dict is a new dict, so the table
\* is left as it was
role_specific_weights_after(detected_role) == engine.role_specific_weights

\* variant: the role's weights are returned as they stand in the table
get_role_specific_weights_unnormalized(detected_role) ==
    IF detected_role \in DOMAIN engine.role_specific_weights
    THEN engine.role_specific_weights[detected_role]
    ELSE default_role_weights

\* _get_role_specific_weights_fixed
get_role_specific_weights_fixed(detected_role) ==
    LET weights == IF detected_role \in DOMAIN engine.role_specific_weights
                   THEN engine.role_specific_weights[detected_role]
                   ELSE default_role_weights
        total_weight == RSumSeq(Values(weights))
    IN  IF RGt(total_weight, I(0))
        THEN [i \in 1..Len(weights) |-> <<weights[i][1], RDiv(weights[i][2], total_weight)>>]
        ELSE weights

\* a candidate skill item is a dict (a record with optional fields name,
\* proficiency, years_experience) or a plain string s, written [str |-> s]
IsDict(skill_item) == "str" \notin DOMAIN skill_item

\* the (name, proficiency, years) read from one candidate skill item
skill_item_fields(skill_item) ==
    IF IsDict(skill_item)
    THEN [name |-> Get(skill_item, "name", ""),
          proficiency |-> LET p == Get(skill_item, "proficiency", "")
                          IN  IF p = "" THEN "intermediate" ELSE p,
          years |-> Get(skill_item, "years_experience", 0)]
    ELSE [name |-> skill_item.str, proficiency |-> "intermediate", years |-> 0]

\* candidate_normalized: the dict normalised name -> info built from the
\* candidate's list; `order` is the dict's key order (first insertion), a
\* later item with the same normalised name replaces the info
RECURSIVE candidate_normalized(_)
candidate_normalized(candidate_skills) ==
    IF candidate_skills = <<>> THEN [order |-> <<>>, info |-> <<>>]
    ELSE LET n == Len(candidate_skills)
             before == candidate_normalized(SubSeq(candidate_skills, 1, n - 1))
             f == skill_item_fields(candidate_skills[n])
             normalized == normalize_skill(f.name)
             entry == [original_name |-> f.name, proficiency |-> f.proficiency,
                       years |-> f.years]
         IN  IF Strip(f.name) = "" THEN before
             ELSE [order |-> IF InList(normalized, before.order) THEN before.order
                             ELSE Append(before.order, normalized),
                   info |-> [k \in DOMAIN before.info \cup {normalized} |->
                                IF k = normalized THEN entry ELSE before.info[k]]]

\* variant: the table's "advanced" entry carries 70 instead of 90
proficiency_base_score_low_advanced(proficiency) ==
    CASE proficiency = "expert" -> 100
      [] proficiency = "advanced" -> 70
      [] proficiency = "intermediate" -> 80
      [] proficiency = "beginner" -> 60
      [] OTHER -> 80

\* proficiency_scores.get(proficiency, 80)
proficiency_base_score(proficiency) ==
    CASE proficiency = "expert" -> 100
      [] proficiency = "advanced" -> 90
      [] proficiency = "intermediate" -> 80
      [] proficiency = "beginner" -> 60
      [] OTHER -> 80

\* type_modifiers.get(match_type, 0.8)
type_modifier(match_type) ==
    CASE match_type = "exact" -> R(100, 100)
      [] match_type = "synonym" -> R(95, 100)
      [] match_type = "related" -> R(85, 100)
      [] OTHER -> R(80, 100)

\* variant: the years bonus is not capped at 10
match_final_score_uncapped_bonus(proficiency, years, match_type) ==
    LET base_score == I(proficiency_base_score(proficiency))
        years_bonus == I(years * 2)
    IN  RMin(RMul(RAdd(base_score, years_bonus), type_modifier(match_type)), I(100))

\* the score of one matched required skill
match_final_score(proficiency, years, match_type) ==
    LET base_score == I(proficiency_base_score(proficiency))
        years_bonus == RMin(I(years * 2), I(10))
    IN  RMin(RMul(RAdd(base_score, years_bonus), type_modifier(match_type)), I(100))

critical_skills == <<"python", "javascript", "react", "java", "sql", "aws", "docker", "git">>

\* how one required skill is matched against candidate_normalized:
\* 1. direct, 2. synonym, 3. the first related candidate in dict order
match_one(cn, required_skill) ==
    LET required_lower == Lower(required_skill)
        normalized_required == normalize_skill(required_skill)
        related == {i \in 1..Len(cn.order) : skills_are_related(required_lower, cn.order[i])}
    IN  IF required_lower \in DOMAIN cn.info
        THEN [match_type |-> "exact", key |-> required_lower]
        ELSE IF normalized_required \in DOMAIN cn.info
        THEN [match_type |-> "synonym", key |-> normalized_required]
        ELSE IF related # {}
        THEN [match_type |-> "related",
              key |-> cn.order[CHOOSE i \in related : \A j \in related : i <= j]]
        ELSE [match_type |-> "none", key |-> ""]

\* the `matches`, `missing` and `synonyms` lists after the required skills
\* 1..n have been processed
RECURSIVE match_lists(_, _, _, _)
match_lists(cn, required_skills, category, n) ==
    IF n = 0 THEN [matches |-> <<>>, missing |-> <<>>, synonyms |-> <<>>]
    ELSE LET before == match_lists(cn, required_skills, category, n - 1)
             required_skill == required_skills[n]
             m == match_one(cn, required_skill)
             match_info == cn.info[m.key]
         IN  IF m.match_type # "none"
             THEN [matches |-> Append(before.matches,
                        [skill |-> required_skill,
                         matched_with |-> match_info.original_name,
                         proficiency |-> match_info.proficiency,
                         years_experience |-> match_info.years,
                         match_type |-> m.match_type,
                         score |-> match_final_score(match_info.proficiency,
                                                     match_info.years, m.match_type),
                         category |-> category]),
                   missing |-> before.missing,
                   synonyms |-> IF m.match_type = "synonym"
                                THEN Append(before.synonyms,
                                        [required |-> required_skill,
                                         found |-> match_info.original_name,
                                         normalized |-> m.key])
                                ELSE before.synonyms]
             ELSE [matches |-> before.matches,
                   missing |-> Append(before.missing,
                        [skill |-> required_skill, category |-> category,
                         critical |-> \E i \in 1..Len(critical_skills) :
                                         SubstringOf(critical_skills[i],
                                                     Lower(required_skill))]),
                   synonyms |-> before.synonyms]

\* _match_skills_with_intelligence
match_skills_with_intelligence(candidate_skills, required_skills, category) ==
    LET cn == candidate_normalized(candidate_skills)
        lists == match_lists(cn, required_skills, category, Len(required_skills))
        category_score ==
            IF required_skills # <<>>
            THEN LET total_possible_score == I(Len(required_skills) * 100)
                     actual_score == RSumSeq([i \in 1..Len(lists.matches) |->
                                                lists.matches[i].score])
                 IN  RMul(RDiv(actual_score, total_possible_score), I(100))
            ELSE I(100)
    IN  [score |-> RMin(category_score, I(100)),
         matches |-> lists.matches,
         missing |-> lists.missing,
         synonyms |-> lists.synonyms]

\* _calculate_skill_relationship_bonuses
calculate_skill_relationship_bonuses(matched_skills) ==
    LET skill_names == {Lower(matched_skills[i].skill) : i \in 1..Len(matched_skills)}
        has_frontend == \E s \in {"react", "vue", "angular", "html", "css"} : s \in skill_names
        has_backend == \E s \in {"python", "java", "node", "sql", "database"} : s \in skill_names
        on == [react_javascript_stack |->
                    "react" \in skill_names /\ "javascript" \in skill_names,
               django_python_stack |->
                    "django" \in skill_names /\ "python" \in skill_names,
               container_orchestration_stack |->
                    "docker" \in skill_names /\ "kubernetes" \in skill_names,
               cloud_devops_combo |->
                    "aws" \in skill_names
                    /\ ("docker" \in skill_names \/ "kubernetes" \in skill_names),
               fullstack_breadth |-> has_frontend /\ has_backend]
        value == Hundredths([react_javascript_stack |-> 15, django_python_stack |-> 15,
                             container_orchestration_stack |-> 12,
                             cloud_devops_combo |-> 10, fullstack_breadth |-> 18])
    IN  [b \in {k \in DOMAIN on : on[k]} |-> value[b]]

\* _calculate_proficiency_score
calculate_proficiency_score(matched_skills) ==
    IF matched_skills = <<>> THEN I(0)
    ELSE RDiv(RSumSeq([i \in 1..Len(matched_skills) |->
                        I(proficiency_base_score(matched_skills[i].proficiency))]),
              I(Len(matched_skills)))

\* the floor score of a category with requirements in which the candidate
\* declares nothing, by the category's (normalised) weight
zero_skill_floor(weight) ==
    IF RGe(weight, R(25, 100)) THEN I(0)
    ELSE IF RGe(weight, R(15, 100)) THEN I(10)
    ELSE I(50)

\* variant: the candidate's empty list is tested before the job's empty list
category_result_floor_first(candidate_skills, required_skills, category, weight) ==
    LET required_list == Get(required_skills, category, <<>>)
        candidate_category_skills == Get(candidate_skills, category, <<>>)
    IN  IF candidate_category_skills = <<>>
        THEN [score |-> zero_skill_floor(weight), matches |-> <<>>,
              missing |-> [i \in 1..Len(required_list) |->
                             [skill |-> required_list[i], category |-> category,
                              critical |-> RGe(weight, R(25, 100))]],
              synonyms |-> <<>>]
        ELSE IF required_list = <<>>
        THEN [score |-> I(100), matches |-> <<>>, missing |-> <<>>, synonyms |-> <<>>]
        ELSE match_skills_with_intelligence(candidate_category_skills, required_list,
                                            category)

\* what one category of the role's weight map contributes
category_result(candidate_skills, required_skills, category, weight) ==
    LET required_list == Get(required_skills, category, <<>>)
        candidate_category_skills == Get(candidate_skills, category, <<>>)
    IN  IF required_list = <<>>
        THEN [score |-> I(100), matches |-> <<>>, missing |-> <<>>, synonyms |-> <<>>]
        ELSE IF candidate_category_skills = <<>>
        THEN [score |-> zero_skill_floor(weight),
              matches |-> <<>>,
              missing |-> [i \in 1..Len(required_list) |->
                             [skill |-> required_list[i], category |-> category,
                              critical |-> RGe(weight, R(25, 100)),
                              importance_level |->
                                 IF RGe(weight, R(25, 100)) THEN "critical"
                                 ELSE IF RGe(weight, R(15, 100)) THEN "important"
                                 ELSE "optional"]],
              synonyms |-> <<>>]
        ELSE match_skills_with_intelligence(candidate_category_skills, required_list,
                                            category)

\* one iteration of the loop over role_weights.items(): the accumulators
\* `before` extended by the category's result r
skills_loop_step(before, category, weight, r) ==
    IF RLe(weight, I(0)) THEN before
    ELSE [matched_skills |-> before.matched_skills \o r.matches,
          missing_skills |-> before.missing_skills \o r.missing,
          category_scores |-> Append(before.category_scores, <<category, r.score>>),
          synonym_matches |-> before.synonym_matches \o r.synonyms,
          total_weighted_score |->
               RAdd(before.total_weighted_score, RMul(r.score, weight)),
          total_category_weight |-> RAdd(before.total_category_weight, weight)]

\* the accumulators of the loop over role_weights.items() after n items
RECURSIVE skills_loop(_, _, _, _)
skills_loop(candidate_skills, required_skills, role_weights, n) ==
    IF n = 0
    THEN [matched_skills |-> <<>>, missing_skills |-> <<>>, category_scores |-> <<>>,
          synonym_matches |-> <<>>, total_weighted_score |-> I(0),
          total_category_weight |-> I(0)]
    ELSE skills_loop_step(
            skills_loop(candidate_skills, required_skills, role_weights, n - 1),
            role_weights[n][1], role_weights[n][2],
            category_result(candidate_skills, required_skills,
                            role_weights[n][1], role_weights[n][2]))

\* the elements of a sequence that satisfy a test, in order
RECURSIVE CriticalOnly(_)
CriticalOnly(missing) ==
    IF missing = <<>> THEN <<>>
    ELSE IF Head(missing).critical THEN <<Head(missing)>> \o CriticalOnly(Tail(missing))
    ELSE CriticalOnly(Tail(missing))

\* the overall score of the accumulators
overall_skills_score(acc) ==
    IF RGt(acc.total_category_weight, I(0))
    THEN RDiv(acc.total_weighted_score, acc.total_category_weight)
    ELSE I(0)

\* 1 + sum(relationship_bonuses.values()) * 0.15
bonus_multiplier(relationship_bonuses) ==
    RAdd(I(1), RMul(RSum(relationship_bonuses), R(15, 100)))

\* the dict returned by _score_enhanced_skills_match, from the loop's
\* accumulators and the relationship bonuses of the matched skills
skills_match_result(acc, base_score, relationship_bonuses, role_weights, detected_role) ==
    [score |-> RMin(RMul(base_score, bonus_multiplier(relationship_bonuses)), I(100)),
     base_score |-> base_score,
     relationship_bonuses |-> relationship_bonuses,
     bonus_multiplier |-> bonus_multiplier(relationship_bonuses),
     matched_skills |-> acc.matched_skills,
     missing_skills |-> acc.missing_skills,
     missing_critical |-> CriticalOnly(acc.missing_skills),
     category_coverage |-> acc.category_scores,
     synonym_matches |-> acc.synonym_matches,
     total_matched |-> Len(acc.matched_skills),
     proficiency_score |-> calculate_proficiency_score(acc.matched_skills),
     role_weights_applied |-> role_weights,
     detected_role |-> detected_role]

\* the accumulators of the whole loop for the role's weight map
skills_accumulators(resume_analysis, job_analysis, role_weights) ==
    skills_loop(Get(resume_analysis, "skills_by_category", <<>>),
                Get(job_analysis, "required_skills", <<>>),
                role_weights, Len(role_weights))

skills_match_of(acc, role_weights, detected_role) ==
    skills_match_result(acc, overall_skills_score(acc),
                        calculate_skill_relationship_bonuses(acc.matched_skills),
                        role_weights, detected_role)

skills_match_with(resume_analysis, job_analysis, role_weights, detected_role) ==
    skills_match_of(skills_accumulators(resume_analysis, job_analysis, role_weights),
                    role_weights, detected_role)

\* _score_enhanced_skills_match
score_enhanced_skills_match(resume_analysis, job_analysis, detected_role) ==
    skills_match_with(resume_analysis, job_analysis,
                      get_role_specific_weights_fixed(detected_role), detected_role)

-----------------------------------------------------------------------------
(* ProfileIngestion: what the pipeline does with the profile-extraction     *)
(* collaborator's answer (score_resume_against_job, step 1)                 *)

\* Python's None
None == "None"

\* _create_fallback_analysis (the model's error messages are shorter than
\* the 200 characters kept in candidate_summary)
create_fallback_analysis(error_message) ==
    [contact_info |-> [name |-> "Analysis Failed", email |-> None, phone |-> None,
                       linkedin |-> None, location |-> None],
     skills_by_category |-> [programming_languages |-> <<>>, web_frameworks |-> <<>>,
                             databases |-> <<>>, cloud_platforms |-> <<>>,
                             devops_tools |-> <<>>, frontend_tools |-> <<>>,
                             testing_tools |-> <<>>, version_control |-> <<>>,
                             soft_skills |-> <<>>],
     work_history |-> <<>>,
     education |-> [degrees |-> <<>>, certifications |-> <<>>],
     projects |-> <<>>,
     experience_analysis |-> [total_years |-> 0, relevant_years |-> 0,
                              current_level |-> "unknown"],
     candidate_summary |-> "AI Analysis failed: " \o error_message \o "...",
     resume_quality |-> [overall_quality |-> 30, formatting_score |-> 30,
                         completeness_score |-> 30],
     leadership_indicators |-> [has_leadership_experience |-> FALSE,
                                team_sizes_managed |-> <<>>, leadership_skills |-> <<>>],
     career_insights |-> [specializations |-> <<>>, career_trajectory |-> "unknown",
                          job_stability |-> "unknown"],
     analysis_error |-> TRUE,
     error_message |-> error_message]

\* The collaborator's answer to analyze_resume_content is one of
\*   [kind |-> "raises", message |-> m]   it raised Exception(m)
\*   [kind |-> "dict", value |-> d]       it returned the dict d
\*   [kind |-> "str", value |-> s]        it returned the string s
\*   [kind |-> "none"]                    it returned None
\* A string is searched for a JSON document (first '{' to last '}').
HasJson(s) == s \in DOMAIN FindJsonTable /\ FindJsonTable[s] \in DOMAIN JsonLoadsTable

\* variant: a string answer is never searched for JSON
resume_analysis_of_no_salvage(outcome) ==
    CASE outcome.kind = "dict" -> outcome.value
      [] outcome.kind = "str" -> create_fallback_analysis(outcome.value)
      [] outcome.kind = "raises" -> create_fallback_analysis(outcome.message)
      [] OTHER -> create_fallback_analysis(
                    "Resume analysis returned <class 'NoneType'> instead of dict")

\* resume_analysis after the inner try/except of step 1
resume_analysis_of(outcome) ==
    CASE outcome.kind = "dict" -> outcome.value
      [] outcome.kind = "str" ->
            IF HasJson(outcome.value) THEN JsonLoadsTable[FindJsonTable[outcome.value]]
            ELSE create_fallback_analysis(outcome.value)
      [] outcome.kind = "raises" -> create_fallback_analysis(outcome.message)
      [] OTHER -> create_fallback_analysis(
                    "Resume analysis returned <class 'NoneType'> instead of dict")

\* "Ensure required keys exist with default values"
with_required_keys(resume_analysis) ==
    [k \in DOMAIN resume_analysis
            \cup {"skills_by_category", "experience_analysis", "contact_info", "work_history"} |->
        IF k \in DOMAIN resume_analysis THEN resume_analysis[k]
        ELSE CASE k = "skills_by_category" -> <<>>
               [] k = "experience_analysis" ->
                    [total_years |-> 0, relevant_years |-> 0, current_level |-> "unknown"]
               [] k = "contact_info" -> [name |-> "Unknown"]
               [] OTHER -> <<>>]

-----------------------------------------------------------------------------
(* RoleClassifier: _detect_role_type                                        *)

frontend_techs ==
    <<"react", "angular", "vue", "javascript", "typescript", "jsx", "tsx",
      "html", "css", "scss", "sass", "bootstrap", "material-ui", "tailwind",
      "frontend", "front-end", "ui", "ux", "user interface", "responsive">>

backend_techs ==
    <<"python", "django", "flask", "fastapi", "java", "spring", "spring boot",
      "node.js", "nodejs", "express", "api", "rest", "restful", "graphql",
      "backend", "back-end", "server-side", "microservices", "database design",
      "php", "laravel", "ruby", "rails", "go", "golang", ".net", "c#">>

fullstack_indicators ==
    <<"full stack", "fullstack", "full-stack", "end-to-end", "end to end",
      "frontend and backend", "backend and frontend", "front-end and back-end",
      "both frontend and backend", "across the stack">>

devops_techs ==
    <<"docker", "kubernetes", "k8s", "jenkins", "ci/cd", "terraform",
      "ansible", "devops", "infrastructure", "deployment", "pipeline",
      "containerization", "orchestration", "automation">>

data_techs ==
    <<"pandas", "numpy", "tensorflow", "pytorch", "scikit-learn", "machine learning",
      "data science", "ml", "ai", "artificial intelligence", "jupyter", "spark",
      "data analysis", "data engineering", "deep learning", "nlp">>

mobile_techs ==
    <<"ios", "android", "swift", "kotlin", "react native", "flutter",
      "mobile", "mobile development", "mobile app", "xamarin", "app development">>

\* count_job_requirements: the required skills that contain, or are contained
\* in, a technology of the list, plus the technologies found in the text
count_job_requirements(tech_list, job_skills_dict, text) ==
    Cardinality({ci \in UNION {{c} \X (1..Len(job_skills_dict[c])) : c \in DOMAIN job_skills_dict} :
                    \E t \in 1..Len(tech_list) :
                        \/ SubstringOf(tech_list[t], Lower(job_skills_dict[ci[1]][ci[2]]))
                        \/ SubstringOf(Lower(job_skills_dict[ci[1]][ci[2]]), tech_list[t])})
    + Cardinality({t \in 1..Len(tech_list) : SubstringOf(tech_list[t], text)})

\* f"{job_title} {job_description} {seniority_level}".lower()
combined_text(job_analysis) ==
    Lower(Get(job_analysis, "summary", "") \o " "
          \o Get(job_analysis, "key_responsibilities", "") \o " "
          \o Get(job_analysis, "seniority_level", ""))

\* variant: the explicit multi-stack phrase is consulted after the counts
role_of_counts_explicit_last(frontend_count, backend_count, devops_count, data_count, mobile_count, fullstack_explicit) ==
    IF frontend_count >= 2 /\ backend_count >= 2 THEN "fullstack_developer"
    ELSE IF data_count >= 4 THEN "data_scientist"
    ELSE IF mobile_count >= 3 THEN "mobile_developer"
    ELSE IF devops_count >= 4 /\ (frontend_count + backend_count) < 4 THEN "devops_engineer"
    ELSE IF backend_count >= 4 /\ frontend_count < 2 THEN "backend_developer"
    ELSE IF frontend_count >= 4 /\ backend_count < 2 THEN "frontend_developer"
    ELSE IF fullstack_explicit THEN "fullstack_developer"
    ELSE IF backend_count > frontend_count THEN "backend_developer"
    ELSE IF frontend_count > backend_count THEN "frontend_developer"
    ELSE IF frontend_count >= 1 /\ backend_count >= 1 THEN "fullstack_developer"
    ELSE "general_developer"

\* variant: the devops rule does not look at the frontend and backend counts
role_of_counts_devops_unguarded(frontend_count, backend_count, devops_count, data_count, mobile_count, fullstack_explicit) ==
    IF fullstack_explicit THEN "fullstack_developer"
    ELSE IF frontend_count >= 2 /\ backend_count >= 2 THEN "fullstack_developer"
    ELSE IF data_count >= 4 THEN "data_scientist"
    ELSE IF mobile_count >= 3 THEN "mobile_developer"
    ELSE IF devops_count >= 4 THEN "devops_engineer"
    ELSE IF backend_count >= 4 /\ frontend_count < 2 THEN "backend_developer"
    ELSE IF frontend_count >= 4 /\ backend_count < 2 THEN "frontend_developer"
    ELSE IF backend_count > frontend_count THEN "backend_developer"
    ELSE IF frontend_count > backend_count THEN "frontend_developer"
    ELSE IF frontend_count >= 1 /\ backend_count >= 1 THEN "fullstack_developer"
    ELSE "general_developer"

\* the decision logic of _detect_role_type on the five counts
role_of_counts(frontend_count, backend_count, devops_count, data_count, mobile_count, fullstack_explicit) ==
    IF fullstack_explicit THEN "fullstack_developer"
    ELSE IF frontend_count >= 3 /\ backend_count >= 3 THEN "fullstack_developer"
    ELSE IF frontend_count >= 2 /\ backend_count >= 2 THEN "fullstack_developer"
    ELSE IF data_count >= 4 THEN "data_scientist"
    ELSE IF mobile_count >= 3 THEN "mobile_developer"
    ELSE IF devops_count >= 4 /\ (frontend_count + backend_count) < 4 THEN "devops_engineer"
    ELSE IF backend_count >= 4 /\ frontend_count < 2 THEN "backend_developer"
    ELSE IF frontend_count >= 4 /\ backend_count < 2 THEN "frontend_developer"
    ELSE IF backend_count > frontend_count THEN "backend_developer"
    ELSE IF frontend_count > backend_count THEN "frontend_developer"
    ELSE IF frontend_count >= 1 /\ backend_count >= 1 THEN "fullstack_developer"
    ELSE "general_developer"

\* the role of a job from its required skills and its text
role_of_job(required_skills, text) ==
    role_of_counts(count_job_requirements(frontend_techs, required_skills, text),
                   count_job_requirements(backend_techs, required_skills, text),
                   count_job_requirements(devops_techs, required_skills, text),
                   count_job_requirements(data_techs, required_skills, text),
                   count_job_requirements(mobile_techs, required_skills, text),
                   \E i \in 1..Len(fullstack_indicators) :
                        SubstringOf(fullstack_indicators[i], text))

\* variant: a candidate without work history is scored as a general developer
detect_role_type_candidate_aware(job_analysis, resume_analysis) ==
    IF Get(resume_analysis, "work_history", <<>>) = <<>> THEN "general_developer"
    ELSE role_of_job(Get(job_analysis, "required_skills", <<>>), combined_text(job_analysis))

\* _detect_role_type (the candidate's profile is not consulted)
detect_role_type(job_analysis, resume_analysis) ==
    role_of_job(Get(job_analysis, "required_skills", <<>>), combined_text(job_analysis))

-----------------------------------------------------------------------------
(* ExperienceScorer: _score_enhanced_experience and its text analyzers      *)

experience_quality_indicators_init ==
    [leadership_keywords |->
        <<"led team", "managed team", "team lead", "team leader", "managed",
          "supervised", "mentored", "coached", "directed", "oversaw",
          "managed developers", "led developers", "tech lead", "technical lead",
          "project lead", "team management", "people management">>,
     impact_keywords |->
        <<"increased", "decreased", "improved", "reduced", "optimized",
          "enhanced", "boosted", "accelerated", "streamlined", "automated",
          "delivered", "achieved", "exceeded", "saved", "generated",
          "performance improvement", "cost reduction", "efficiency gains">>,
     innovation_keywords |->
        <<"created", "developed", "designed", "built", "architected",
          "implemented", "launched", "introduced", "pioneered", "initiated",
          "innovative", "cutting-edge", "state-of-the-art", "breakthrough",
          "patent", "open source", "published", "research", "novel approach">>,
     scale_keywords |->
        <<"million users", "thousand users", "large scale", "high volume",
          "enterprise", "microservices", "distributed", "scalable",
          "high availability", "load balancing", "performance tuning",
          "big data", "cloud scale", "global", "enterprise-wide">>]

Min(a, b) == IF a <= b THEN a ELSE b
Max(a, b) == IF a >= b THEN a ELSE b

\* Python's `x or y` on numbers
PyOr(x, y) == IF x = 0 THEN y ELSE x

\* sep.join(parts)
RECURSIVE Join(_, _)
Join(sep, parts) ==
    IF parts = <<>> THEN ""
    ELSE IF Len(parts) = 1 THEN parts[1]
    ELSE parts[1] \o sep \o Join(sep, Tail(parts))

\* str(list) of a list of strings without quotes in them
ListStr(list) == "[" \o Join(", ", [i \in 1..Len(list) |-> "'" \o list[i] \o "'"]) \o "]"

\* the text of one job: f"{title} {key_achievements} {technologies_used}"
job_text(job) ==
    Get(job, "title", "") \o " " \o ListStr(Get(job, "key_achievements", <<>>))
        \o " " \o ListStr(Get(job, "technologies_used", <<>>))

experience_text(work_history) ==
    Join(" ", [i \in 1..Len(work_history) |-> job_text(work_history[i])])

\* the number of keywords of a list found in a lower-cased text
KeywordHits(keywords, text_lower) ==
    Cardinality({i \in 1..Len(keywords) : SubstringOf(keywords[i], text_lower)})

\* variant: the two steps below the requirement are exchanged
calculate_base_experience_score_steps_swapped(relevant_years, min_required) ==
    IF min_required = 0 THEN 85
    ELSE IF relevant_years >= min_required + 3 THEN 95
    ELSE IF relevant_years >= min_required + 1 THEN 90
    ELSE IF relevant_years >= min_required THEN 85
    ELSE IF RGe(I(relevant_years), RMul(I(min_required), R(8, 10))) THEN 65
    ELSE IF RGe(I(relevant_years), RMul(I(min_required), R(6, 10))) THEN 75
    ELSE 45

\* _calculate_base_experience_score
calculate_base_experience_score(relevant_years, min_required) ==
    IF min_required = 0 THEN 85
    ELSE IF relevant_years >= min_required + 3 THEN 95
    ELSE IF relevant_years >= min_required + 1 THEN 90
    ELSE IF relevant_years >= min_required THEN 85
    ELSE IF RGe(I(relevant_years), RMul(I(min_required), R(8, 10))) THEN 75
    ELSE IF RGe(I(relevant_years), RMul(I(min_required), R(6, 10))) THEN 65
    ELSE 45

\* _analyze_leadership_experience
analyze_leadership_experience(text) ==
    Min(KeywordHits(engine.experience_quality_indicators.leadership_keywords, Lower(text)) * 10
        + (IF Lower(text) \in DOMAIN TeamSizeTable
           THEN Min(TeamSizeTable[Lower(text)] * 5, 30) ELSE 0),
        100)

\* _analyze_quantified_impact
analyze_quantified_impact(text) ==
    Min(Get(PercentageMatchesTable, text, 0) * 15
        + Get(MoneyMatchesTable, Lower(text), 0) * 20
        + KeywordHits(engine.experience_quality_indicators.impact_keywords, Lower(text)) * 8,
        100)

tech_intro_patterns ==
    <<"introduced", "migrated to", "adopted", "implemented new",
      "modernized", "transformed", "revolutionized">>

\* _analyze_innovation_indicators
analyze_innovation_indicators(text) ==
    Min(KeywordHits(engine.experience_quality_indicators.innovation_keywords, Lower(text)) * 10
        + KeywordHits(tech_intro_patterns, Lower(text)) * 12,
        100)

\* _analyze_scale_experience
analyze_scale_experience(text) ==
    Min(KeywordHits(engine.experience_quality_indicators.scale_keywords, Lower(text)) * 15, 100)

\* _extract_quantified_achievements
extract_quantified_achievements(text) == Get(QuantifiedAchievementsTable, text, <<>>)

\* _get_experience_quality_tier
get_experience_quality_tier(quality_bonus) ==
    IF RGe(quality_bonus, I(35)) THEN "exceptional"
    ELSE IF RGe(quality_bonus, I(25)) THEN "excellent"
    ELSE IF RGe(quality_bonus, I(15)) THEN "good"
    ELSE IF RGe(quality_bonus, I(5)) THEN "moderate"
    ELSE "basic"

\* the dict returned by _score_enhanced_experience, from the base score, the
\* four quality scores and the years
experience_scoring_of(base_score, leadership_score, impact_score, innovation_score, scale_score, quantified_achievements, years_gap) ==
    LET leadership_bonus == RMin(RMul(I(leadership_score), R(30, 100)), I(15))
        impact_bonus == RMin(RMul(I(impact_score), R(25, 100)), I(12))
        innovation_bonus == RMin(RMul(I(innovation_score), R(20, 100)), I(10))
        scale_bonus == RMin(RMul(I(scale_score), R(15, 100)), I(8))
        total_quality_bonus ==
            RAdd(RAdd(leadership_bonus, impact_bonus), RAdd(innovation_bonus, scale_bonus))
    IN  [score |-> RMin(RAdd(I(base_score), total_quality_bonus), I(100)),
         base_score |-> I(base_score),
         quality_bonus |-> total_quality_bonus,
         leadership_score |-> leadership_score,
         impact_score |-> impact_score,
         innovation_score |-> innovation_score,
         scale_score |-> scale_score,
         quantified_achievements |-> quantified_achievements,
         analysis |->
            [years_gap |-> years_gap,
             quality_indicators_found |->
                Cardinality({k \in {"l", "i", "n", "s"} :
                    \/ k = "l" /\ RGt(leadership_bonus, I(0))
                    \/ k = "i" /\ RGt(impact_bonus, I(0))
                    \/ k = "n" /\ RGt(innovation_bonus, I(0))
                    \/ k = "s" /\ RGt(scale_bonus, I(0))}),
             experience_quality_tier |-> get_experience_quality_tier(total_quality_bonus)]]

\* the scoring of relevant_years against min_required with the quality of
\* the experience text
experience_of_text(relevant_years, min_required, text) ==
    experience_scoring_of(calculate_base_experience_score(relevant_years, min_required),
                          analyze_leadership_experience(text),
                          analyze_quantified_impact(text),
                          analyze_innovation_indicators(text),
                          analyze_scale_experience(text),
                          extract_quantified_achievements(text),
                          relevant_years - min_required)

\* relevant_years = experience_data.get("relevant_years", 0) or total_years
relevant_years_of(experience_data) ==
    PyOr(Get(experience_data, "relevant_years", 0),
         PyOr(Get(experience_data, "total_years", 0), 0))

\* _score_enhanced_experience
score_enhanced_experience(resume_analysis, job_analysis) ==
    experience_of_text(relevant_years_of(Get(resume_analysis, "experience_analysis", <<>>)),
                       PyOr(Get(job_analysis, "minimum_experience", 0), 0),
                       experience_text(Get(resume_analysis, "work_history", <<>>)))

-----------------------------------------------------------------------------
(* EducationScorer: _score_education_match                                  *)

degree_levels == ("Bachelor's" :> 3) @@ ("Master's" :> 4) @@ ("PhD" :> 5)

\* a value that Python takes for true in `if x:` (x a string or None)
Truthy(x) == x # None /\ x # ""

\* degree_levels.get(degree.get("level", ""), 0)
level_of(levels, degree) == Get(levels, Get(degree, "level", ""), 0)

\* max(degrees, key=...): the first degree of the greatest level
highest_degree(levels, degrees) ==
    degrees[CHOOSE i \in 1..Len(degrees) :
                /\ \A j \in 1..Len(degrees) : level_of(levels, degrees[j]) <= level_of(levels, degrees[i])
                /\ \A j \in 1..(i - 1) : level_of(levels, degrees[j]) < level_of(levels, degrees[i])]

\* variant: a degree below the required level earns 40 whatever the distance
degree_score_flat_partial(highest, required_degree, required_field) ==
    (IF Truthy(required_degree)
     THEN IF level_of(degree_levels, highest) >= Get(degree_levels, required_degree, 3)
          THEN 70
          ELSE 40
     ELSE 50)
    + (IF /\ required_field # <<>>
          /\ \E i \in 1..Len(required_field) :
                /\ Truthy(required_field[i])
                /\ SubstringOf(Lower(required_field[i]),
                               Lower(IF Truthy(Get(highest, "field", None))
                                     THEN highest.field ELSE ""))
       THEN 20 ELSE 0)

\* the degree part of the score for a candidate with degrees
degree_score(highest, required_degree, required_field) ==
    (IF Truthy(required_degree)
     THEN IF level_of(degree_levels, highest) >= Get(degree_levels, required_degree, 3)
          THEN 70
          ELSE Max(0, 40 - (Get(degree_levels, required_degree, 3)
                            - level_of(degree_levels, highest)) * 15)
     ELSE 50)
    + (IF /\ required_field # <<>>
          /\ \E i \in 1..Len(required_field) :
                /\ Truthy(required_field[i])
                /\ SubstringOf(Lower(required_field[i]),
                               Lower(IF Truthy(Get(highest, "field", None))
                                     THEN highest.field ELSE ""))
       THEN 20 ELSE 0)

\* cert_names: the lower-cased names of the candidate's named certificates
cert_names(candidate_certs) ==
    {Lower(candidate_certs[i].name) :
        i \in {j \in 1..Len(candidate_certs) : Truthy(Get(candidate_certs[j], "name", None))}}

\* matched_certs: the required certificates found in some candidate name
matched_certs(required_certs, candidate_certs) ==
    Cardinality({i \in 1..Len(required_certs) :
                    /\ Truthy(required_certs[i])
                    /\ \E n \in cert_names(candidate_certs) :
                            n # "" /\ SubstringOf(Lower(required_certs[i]), n)})

\* the dict returned by _score_education_match
education_scoring_of(candidate_degrees, candidate_certs, required_degree, required_field, required_certs) ==
    LET education_score ==
            IF candidate_degrees # <<>>
            THEN degree_score(highest_degree(degree_levels, candidate_degrees),
                              required_degree, required_field)
            ELSE IF Truthy(required_degree) THEN 10 ELSE 70
        cert_score ==
            IF required_certs # <<>> /\ candidate_certs # <<>>
            THEN RMul(R(matched_certs(required_certs, candidate_certs), Len(required_certs)),
                      I(30))
            ELSE I(0)
    IN  [score |-> RMin(I(100), RAdd(I(education_score), cert_score)),
         degree_score |-> education_score,
         certification_score |-> cert_score,
         matched_certifications |->
            Cardinality({i \in 1..Len(candidate_certs) :
                /\ Truthy(Get(candidate_certs[i], "name", None))
                /\ \E r \in 1..Len(required_certs) :
                      /\ Truthy(required_certs[r])
                      /\ SubstringOf(Lower(required_certs[r]),
                                     Lower(candidate_certs[i].name))}),
         total_certifications |-> Len(candidate_certs)]

\* the scoring of the candidate's education against the job's requirements
education_of(education_data, job_education) ==
    education_scoring_of(Get(education_data, "degrees", <<>>),
                         Get(education_data, "certifications", <<>>),
                         Get(job_education, "required_degree", None),
                         Get(job_education, "field_of_study", <<>>),
                         Get(job_education, "certifications", <<>>))

\* _score_education_match
score_education_match(resume_analysis, job_analysis) ==
    education_of(Get(resume_analysis, "education", <<>>),
                 Get(job_analysis, "education_requirements", <<>>))

\* _get_highest_education
get_highest_education(education) ==
    IF Get(education, "degrees", <<>>) = <<>> THEN None
    ELSE Get(highest_degree(("Bachelor's" :> 1) @@ ("Master's" :> 2) @@ ("PhD" :> 3),
                            education.degrees),
             "level", None)

-----------------------------------------------------------------------------
(* Additional qualifications: _score_enhanced_additional_qualifications     *)

\* the dict returned, from the five inputs read off the profile
additional_scoring_of(quality_score, soft_skills, has_leadership, innovations, projects) ==
    LET score ==
            RAdd(RAdd(I(50), RMul(I(quality_score - 50), R(3, 10))),
                 I((IF Len(soft_skills) >= 3 THEN 15
                    ELSE IF Len(soft_skills) >= 1 THEN 10 ELSE 0)
                   + (IF has_leadership THEN 15 ELSE 0)
                   + (IF innovations # <<>> THEN Min(10, Len(innovations) * 3) ELSE 0)
                   + (IF Len(projects) >= 2 THEN 10 ELSE 0)))
    IN  [score |-> RMin(I(100), RMax(I(0), score)),
         soft_skills_count |-> Len(soft_skills),
         has_leadership |-> has_leadership,
         innovation_count |-> Len(innovations),
         project_count |-> Len(projects),
         resume_quality |-> quality_score]

\* _score_enhanced_additional_qualifications
score_enhanced_additional_qualifications(resume_analysis, job_analysis) ==
    additional_scoring_of(
        Get(Get(resume_analysis, "resume_quality", <<>>), "overall_quality", 50),
        Get(Get(resume_analysis, "skills_by_category", <<>>), "soft_skills", <<>>),
        Get(Get(resume_analysis, "leadership_indicators", <<>>),
            "has_leadership_experience", FALSE),
        Get(Get(resume_analysis, "career_insights", <<>>), "innovation_indicators", <<>>),
        Get(resume_analysis, "projects", <<>>))

-----------------------------------------------------------------------------
(* RedFlagDetector: _detect_red_flags                                       *)

\* variant: a summed penalty of exactly 0.20 is not yet high
assess_risk_level_strict_high(penalty) ==
    IF RGt(penalty, R(20, 100)) THEN "high"
    ELSE IF RGe(penalty, R(10, 100)) THEN "medium"
    ELSE IF RGt(penalty, I(0)) THEN "low"
    ELSE "minimal"

\* _assess_risk_level
assess_risk_level(penalty) ==
    IF RGe(penalty, R(20, 100)) THEN "high"
    ELSE IF RGe(penalty, R(10, 100)) THEN "medium"
    ELSE IF RGt(penalty, I(0)) THEN "low"
    ELSE "minimal"

\* variant: every job of the history is looked at, not the first five
short_tenures_all_jobs(work_history) ==
    Cardinality({i \in 1..Len(work_history) :
                    /\ "duration_text" \notin DOMAIN work_history[i]
                    /\ Get(work_history[i], "duration_months", 24) < 12})

\* the number of the five most recent jobs that lasted less than 12 months.
\* A job without duration_months counts as 24 months.  A job whose
\* duration_months is not a number (a string, None) is written with the
\* field duration_text in place of duration_months: the isinstance test
\* fails for it.
short_tenures(work_history) ==
    Cardinality({i \in 1..Min(Len(work_history), 5) :
                    /\ "duration_text" \notin DOMAIN work_history[i]
                    /\ Get(work_history[i], "duration_months", 24) < 12})

\* the simplified gap detection: the word "gap" in an end date that is not
\* "present" or in the next job's start date
gap_detected(work_history) ==
    \E i \in 1..(Len(work_history) - 1) :
        /\ Get(work_history[i], "end_date", "") # ""
        /\ Get(work_history[i + 1], "start_date", "") # ""
        /\ Get(work_history[i], "end_date", "") # "present"
        /\ \/ SubstringOf("gap", Lower(Get(work_history[i], "end_date", "")))
           \/ SubstringOf("gap", Lower(Get(work_history[i + 1], "start_date", "")))

\* the red_flags list, in the order of the three checks; a description is
\* the tuple of the parts of its (f-)string
flags_detected(work_history, experience_years) ==
    (IF /\ Len(work_history) > 2
        /\ short_tenures(work_history) >= engine.red_flag_patterns.job_hopping.threshold
     THEN <<[type |-> "job_hopping",
             description |-> <<"Multiple short tenures (", short_tenures(work_history),
                               " jobs < 1 year)">>,
             severity |-> "medium",
             penalty |-> engine.red_flag_patterns.job_hopping.penalty]>>
     ELSE <<>>)
    \o (IF Len(work_history) > 1 /\ gap_detected(work_history)
        THEN <<[type |-> "employment_gaps", description |-> <<"Employment gap detected">>,
                severity |-> "low",
                penalty |-> engine.red_flag_patterns.employment_gaps.penalty]>>
        ELSE <<>>)
    \o (IF experience_years > 15
        THEN <<[type |-> "over_qualification",
                description |-> <<"Very senior candidate - may be overqualified">>,
                severity |-> "low",
                penalty |-> engine.red_flag_patterns.over_qualification.penalty]>>
        ELSE <<>>)

\* variant: the summed penalty is reported as it is
red_flag_analysis_of_uncapped(red_flags) ==
    LET penalty_total == RSumSeq([i \in 1..Len(red_flags) |-> red_flags[i].penalty])
    IN  [flags_detected |-> red_flags,
         total_penalty |-> penalty_total,
         risk_level |-> assess_risk_level(penalty_total),
         has_concerns |-> Len(red_flags) > 0]

\* the dict returned by _detect_red_flags for the flags found
red_flag_analysis_of(red_flags) ==
    LET penalty_total == RSumSeq([i \in 1..Len(red_flags) |-> red_flags[i].penalty])
    IN  [flags_detected |-> red_flags,
         total_penalty |-> RMin(penalty_total, R(25, 100)),
         risk_level |-> assess_risk_level(penalty_total),
         has_concerns |-> Len(red_flags) > 0]

\* _detect_red_flags
detect_red_flags(resume_analysis) ==
    red_flag_analysis_of(
        flags_detected(Get(resume_analysis, "work_history", <<>>),
                       Get(Get(resume_analysis, "experience_analysis", <<>>),
                           "total_years", 0)))

-----------------------------------------------------------------------------
(* Insights, recommendation and the compiled result                         *)

bonus_order ==
    <<"react_javascript_stack", "django_python_stack", "container_orchestration_stack",
      "cloud_devops_combo", "fullstack_breadth">>

\* bonus_name.replace("_", " ").title() of the bonuses above 0.1
bonus_descriptions(relationship_bonuses) ==
    LET big == SelectSeq(bonus_order,
                         LAMBDA b : /\ b \in DOMAIN relationship_bonuses
                                    /\ RGt(relationship_bonuses[b], R(1, 10)))
    IN  [i \in 1..Len(big) |-> TitleTable[ReplaceUnderscoreTable[big[i]]]]

\* the dict returned by _generate_enhanced_insights, from the values it reads
\* off the skill and experience scorings.  A sentence is the tuple of the
\* parts of its f-string; detailed_analysis is the tuple of its variable parts
insights_of(matched_skills, relationship_bonuses, leadership_score, impact_score, missing_critical, years_gap, quality_tier) ==
    LET strengths ==
            (IF matched_skills >= 8
             THEN << <<"Strong technical match with ", matched_skills, " required skills">> >>
             ELSE <<>>)
            \o (IF bonus_descriptions(relationship_bonuses) # <<>>
                THEN << <<"Technology stack synergies: ",
                          Join(", ", bonus_descriptions(relationship_bonuses))>> >>
                ELSE <<>>)
            \o (IF leadership_score > 60
                THEN << <<"Demonstrated leadership and team management experience">> >>
                ELSE <<>>)
            \o (IF impact_score > 50
                THEN << <<"Track record of quantifiable business impact">> >>
                ELSE <<>>)
        concerns ==
            [i \in 1..Min(3, Len(missing_critical)) |->
                <<"Missing critical skill: ", missing_critical[i].skill>>]
            \o (IF years_gap < -1
                THEN << <<"Below required experience level by ", Abs(years_gap), " years">> >>
                ELSE <<>>)
    IN  [strengths |-> SubSeq(strengths, 1, Min(5, Len(strengths))),
         concerns |-> SubSeq(concerns, 1, Min(5, Len(concerns))),
         detailed_analysis |->
            <<matched_skills,
              IF matched_skills >= 6 THEN "strong" ELSE "moderate",
              IF DOMAIN relationship_bonuses # {}
              THEN "Advanced technology stack combinations identified."
              ELSE "Standard skill set without notable synergies.",
              TitleTable[quality_tier],
              IF leadership_score > 40 \/ impact_score > 40
              THEN "quantifiable impact and leadership indicators"
              ELSE "standard professional background",
              IF matched_skills >= 8 /\ years_gap >= 0 THEN "Excellent"
              ELSE IF matched_skills >= 5 THEN "Good" ELSE "Limited",
              IF Len(concerns) <= 2 /\ matched_skills >= 6
              THEN "Strong candidate recommended for interview"
              ELSE IF Len(concerns) <= 4 THEN "Moderate fit requiring careful evaluation"
              ELSE "Below requirements for this position">>,
         role_strengths |-> <<"Role-specific analysis would be implemented here">>,
         role_gaps |-> <<"Role-specific gap analysis would be implemented here">>]

\* _generate_enhanced_insights
generate_enhanced_insights(resume_analysis, job_analysis, skills_scoring, experience_scoring) ==
    insights_of(Get(skills_scoring, "total_matched", 0),
                Get(skills_scoring, "relationship_bonuses", <<>>),
                Get(experience_scoring, "leadership_score", 0),
                Get(experience_scoring, "impact_score", 0),
                Get(skills_scoring, "missing_critical", <<>>),
                Get(Get(experience_scoring, "analysis", <<>>), "years_gap", 0),
                Get(Get(experience_scoring, "analysis", <<>>), "experience_quality_tier",
                    "basic"))

\* _get_enhanced_recommendation (the texts without their leading symbol)
get_enhanced_recommendation(overall_score) ==
    IF RGe(overall_score, I(90))
    THEN "Exceptional candidate - Immediate interview strongly recommended"
    ELSE IF RGe(overall_score, I(80)) THEN "Strong candidate - High priority for interview"
    ELSE IF RGe(overall_score, I(70)) THEN "Good candidate - Recommend for interview"
    ELSE IF RGe(overall_score, I(60))
    THEN "Moderate fit - Review carefully, consider phone screen"
    ELSE IF RGe(overall_score, I(45))
    THEN "Below requirements - Consider only if candidate pool is limited"
    ELSE "Poor fit - Not recommended for this position"

\* score_ranges of the /scoring-info endpoint: the bounds of each documented
\* range and its text
score_ranges ==
    << <<90, 100, "Exceptional match, immediate interview">>,
       <<75, 89, "Strong match, high priority">>,
       <<60, 74, "Good match, consider for interview">>,
       <<45, 59, "Moderate match, review carefully">>,
       <<0, 44, "Weak match, likely not suitable">> >>

-----------------------------------------------------------------------------
(* ScoringPipeline: score_resume_against_job, steps 3 to 10                 *)

\* The steps that run inside a try/except of their own.  A call is made with
\* the set `faults` of the steps whose scorer raises during the call.
Steps == {"skills", "experience", "education", "additional", "red_flags", "final", "insights"}

\* str(e) of the exception of a failing scorer
FaultMessage == "scorer failed"

\* step 3
skills_step(resume_analysis, job_analysis, detected_role, faults) ==
    IF "skills" \in faults
    THEN [score |-> I(0), matched_skills |-> <<>>, missing_critical |-> <<>>,
          category_coverage |-> <<>>]
    ELSE score_enhanced_skills_match(resume_analysis, job_analysis, detected_role)

\* step 4
experience_step(resume_analysis, job_analysis, faults) ==
    IF "experience" \in faults
    THEN [score |-> I(0), base_score |-> I(0), quality_bonus |-> I(0),
          analysis |-> [experience_quality_tier |-> "basic"]]
    ELSE score_enhanced_experience(resume_analysis, job_analysis)

\* step 5
education_step(resume_analysis, job_analysis, faults) ==
    IF "education" \in faults THEN [score |-> I(0)]
    ELSE score_education_match(resume_analysis, job_analysis)

\* step 6
additional_step(resume_analysis, job_analysis, faults) ==
    IF "additional" \in faults THEN [score |-> I(0)]
    ELSE score_enhanced_additional_qualifications(resume_analysis, job_analysis)

\* step 7
red_flag_step(resume_analysis, faults) ==
    IF "red_flags" \in faults
    THEN [flags_detected |-> <<>>, total_penalty |-> I(0), risk_level |-> "minimal",
          has_concerns |-> FALSE]
    ELSE detect_red_flags(resume_analysis)

\* steps 3 to 7: the five scorings that depend on the two profiles only
pillar_scorings(resume_analysis, job_analysis, detected_role, faults) ==
    [skills_scoring |-> skills_step(resume_analysis, job_analysis, detected_role, faults),
     experience_scoring |-> experience_step(resume_analysis, job_analysis, faults),
     education_scoring |-> education_step(resume_analysis, job_analysis, faults),
     additional_scoring |-> additional_step(resume_analysis, job_analysis, faults),
     red_flag_analysis |-> red_flag_step(resume_analysis, faults)]

\* step 8
final_step(p, detected_role, faults) ==
    IF "final" \in faults THEN [overall_score |-> I(0), role_fit_score |-> I(0)]
    ELSE calculate_enhanced_weighted_scores(
            [required_skills_score |-> Get(p.skills_scoring, "score", I(0)),
             experience_score |-> Get(p.experience_scoring, "score", I(0)),
             education_score |-> Get(p.education_scoring, "score", I(0)),
             additional_qualifications_score |-> Get(p.additional_scoring, "score", I(0))],
            p.red_flag_analysis, detected_role)

\* step 9
insights_step(resume_analysis, job_analysis, skills_scoring, experience_scoring, faults) ==
    IF "insights" \in faults
    THEN [strengths |-> <<>>, concerns |-> <<>>,
          detailed_analysis |-> <<"Analysis failed: ", FaultMessage>>]
    ELSE generate_enhanced_insights(resume_analysis, job_analysis, skills_scoring,
                                    experience_scoring)

\* the seven dicts that step 10 reads
all_scorings(p, resume_analysis, job_analysis, detected_role, faults) ==
    [skills_scoring |-> p.skills_scoring,
     experience_scoring |-> p.experience_scoring,
     education_scoring |-> p.education_scoring,
     additional_scoring |-> p.additional_scoring,
     red_flag_analysis |-> p.red_flag_analysis,
     final_scores |-> final_step(p, detected_role, faults),
     insights |-> insights_step(resume_analysis, job_analysis, p.skills_scoring,
                                p.experience_scoring, faults)]

\* the subscripts d[k] of step 10, in the order of their evaluation
result_subscripts ==
    << <<"final_scores", "overall_score">>, <<"skills_scoring", "score">>,
       <<"experience_scoring", "score">>, <<"education_scoring", "score">>,
       <<"additional_scoring", "score">>, <<"skills_scoring", "matched_skills">>,
       <<"skills_scoring", "missing_critical">>, <<"skills_scoring", "category_coverage">>,
       <<"experience_scoring", "base_score">>, <<"experience_scoring", "quality_bonus">>,
       <<"experience_scoring", "leadership_score">>, <<"experience_scoring", "impact_score">>,
       <<"experience_scoring", "innovation_score">>, <<"experience_scoring", "scale_score">>,
       <<"experience_scoring", "quantified_achievements">>, <<"experience_scoring", "analysis">>,
       <<"red_flag_analysis", "flags_detected">>, <<"red_flag_analysis", "risk_level">>,
       <<"red_flag_analysis", "total_penalty">>, <<"red_flag_analysis", "has_concerns">>,
       <<"insights", "strengths">>, <<"insights", "concerns">>,
       <<"insights", "detailed_analysis">> >>

\* the subscripts of step 10 that raise KeyError on the dicts d
key_errors(d) ==
    {i \in 1..Len(result_subscripts) :
        result_subscripts[i][2] \notin DOMAIN d[result_subscripts[i][1]]}

\* the result dict of step 10 (without the two clock readings of
\* processing_metadata)
compile_result(filename, resume_analysis, detected_role, d) ==
    [filename |-> filename,
     overall_score |-> Round1(d.final_scores.overall_score),
     recommendation |-> get_enhanced_recommendation(d.final_scores.overall_score),
     score_breakdown |->
        [required_skills |-> Round1(d.skills_scoring.score),
         experience_level |-> Round1(d.experience_scoring.score),
         education |-> Round1(d.education_scoring.score),
         additional_qualifications |-> Round1(d.additional_scoring.score)],
     enhanced_skill_analysis |->
        [matched_skills |-> d.skills_scoring.matched_skills,
         missing_critical |-> d.skills_scoring.missing_critical,
         skill_categories_coverage |-> d.skills_scoring.category_coverage,
         proficiency_breakdown |-> Get(d.skills_scoring, "proficiency_score", I(0)),
         synonym_matches |-> Get(d.skills_scoring, "synonym_matches", <<>>),
         skill_relationship_bonuses |-> Get(d.skills_scoring, "relationship_bonuses", <<>>),
         role_weights_applied |-> Get(d.skills_scoring, "role_weights_applied", <<>>),
         detected_role |-> detected_role],
     experience_quality_analysis |->
        [base_experience_score |-> d.experience_scoring.base_score,
         quality_bonus |-> d.experience_scoring.quality_bonus,
         leadership_score |-> d.experience_scoring.leadership_score,
         impact_score |-> d.experience_scoring.impact_score,
         innovation_score |-> d.experience_scoring.innovation_score,
         scale_score |-> d.experience_scoring.scale_score,
         quantified_achievements |-> d.experience_scoring.quantified_achievements,
         experience_quality_tier |-> d.experience_scoring.analysis.experience_quality_tier],
     red_flag_analysis |->
        [flags_detected |-> d.red_flag_analysis.flags_detected,
         risk_level |-> d.red_flag_analysis.risk_level,
         penalty_applied |-> d.red_flag_analysis.total_penalty,
         has_concerns |-> d.red_flag_analysis.has_concerns],
     candidate_insights |->
        [career_level |-> Get(Get(resume_analysis, "experience_analysis", <<>>),
                              "current_level", "unknown"),
         career_trajectory |-> Get(Get(resume_analysis, "career_insights", <<>>),
                                   "career_trajectory", "unknown"),
         specializations |-> Get(Get(resume_analysis, "career_insights", <<>>),
                                 "specializations", <<>>),
         skill_diversity |-> Get(resume_analysis, "skill_diversity_score", 0),
         resume_quality |-> Get(Get(resume_analysis, "resume_quality", <<>>),
                                "overall_quality", 0),
         role_fit_score |-> Get(d.final_scores, "role_fit_score", I(0))],
     key_strengths |-> d.insights.strengths,
     areas_of_concern |-> d.insights.concerns,
     justification |-> d.insights.detailed_analysis,
     role_specific_insights |->
        [role_strengths |-> Get(d.insights, "role_strengths", <<>>),
         role_gaps |-> Get(d.insights, "role_gaps", <<>>)],
     candidate_info |->
        [name |-> Get(Get(resume_analysis, "contact_info", <<>>), "name", None),
         email |-> Get(Get(resume_analysis, "contact_info", <<>>), "email", None),
         phone |-> Get(Get(resume_analysis, "contact_info", <<>>), "phone", None),
         linkedin |-> Get(Get(resume_analysis, "contact_info", <<>>), "linkedin", None),
         location |-> Get(Get(resume_analysis, "contact_info", <<>>), "location", None),
         years_experience |-> Get(Get(resume_analysis, "experience_analysis", <<>>),
                                  "total_years", None),
         relevant_experience |-> Get(Get(resume_analysis, "experience_analysis", <<>>),
                                     "relevant_years", None),
         education_level |-> get_highest_education(Get(resume_analysis, "education", <<>>)),
         current_level |-> Get(Get(resume_analysis, "experience_analysis", <<>>),
                               "current_level", None)],
     processing_metadata |->
        [ai_provider |-> "google_gemini_enhanced",
         analysis_version |-> "enterprise_3.0",
         features_applied |-> <<"skill_intelligence", "role_specific_weighting",
                                "experience_quality_analysis", "red_flag_detection",
                                "enhanced_insights">>]]

\* what step 10 yields: the result, or the exception of the outer handler
\* when a subscript raises KeyError
pipeline_return(filename, resume_analysis, detected_role, d) ==
    IF key_errors(d) # {}
    THEN [raised |-> TRUE,
          message |-> "Enhanced scoring failed: '"
                      \o result_subscripts[CHOOSE i \in key_errors(d) :
                                              \A j \in key_errors(d) : i <= j][2]
                      \o "'"]
    ELSE [raised |-> FALSE,
          value |-> compile_result(filename, resume_analysis, detected_role, d)]

\* steps 3 to 10 for a detected role
score_with_role(resume_analysis, job_analysis, filename, detected_role, faults) ==
    pipeline_return(filename, resume_analysis, detected_role,
                    all_scorings(pillar_scorings(resume_analysis, job_analysis,
                                                 detected_role, faults),
                                 resume_analysis, job_analysis, detected_role, faults))

\* steps 2 to 10 for the analysis that step 1 settled on
score_with_analysis(resume_analysis, job_analysis, filename, faults) ==
    score_with_role(resume_analysis, job_analysis, filename,
                    detect_role_type(job_analysis, resume_analysis), faults)

\* variant: an exception of the collaborator is not caught by step 1 and
\* reaches the outer handler
score_resume_against_job_propagating(outcome, job_analysis, filename, faults) ==
    IF outcome.kind = "raises"
    THEN [raised |-> TRUE, message |-> "Enhanced scoring failed: " \o outcome.message]
    ELSE score_with_analysis(with_required_keys(resume_analysis_of(outcome)),
                             job_analysis, filename, faults)

\* score_resume_against_job, for the collaborator's answer `outcome` on the
\* resume text and the set `faults` of scorers that raise: either
\* [raised |-> FALSE, value |-> result] or [raised |-> TRUE, message |-> m]
score_resume_against_job(outcome, job_analysis, filename, faults) ==
    score_with_analysis(with_required_keys(resume_analysis_of(outcome)),
                        job_analysis, filename, faults)

-----------------------------------------------------------------------------
(* BatchRanker: score_multiple_resumes                                      *)

\* the entry appended when score_resume_against_job raised
error_entry(filename, message) ==
    [filename |-> filename,
     error |-> message,
     overall_score |-> I(0),
     recommendation |-> "Processing failed - please try again",
     candidate_info |-> [name |-> "Processing Error"]]

\* the entry x put behind the entries of a sorted list that score at least
\* as much
InsertByScore(sorted, x) ==
    LET k == Cardinality({i \in 1..Len(sorted) :
                            RGe(sorted[i].overall_score, x.overall_score)})
    IN  SubSeq(sorted, 1, k) \o <<x>> \o SubSeq(sorted, k + 1, Len(sorted))

\* variant: the results are left in submission order
SortedByScore_submission_order(results) == results

\* results.sort(key=overall_score, reverse=True): descending and stable
RECURSIVE SortedByScore(_)
SortedByScore(results) ==
    IF results = <<>> THEN <<>>
    ELSE InsertByScore(SortedByScore(SubSeq(results, 1, Len(results) - 1)),
                       results[Len(results)])

RECURSIVE SumSeq(_)
SumSeq(s) == IF s = <<>> THEN 0 ELSE Head(s) + SumSeq(Tail(s))

\* result.get("enhanced_skill_analysis", {}).get("detected_role", "unknown")
role_of_result(result) ==
    Get(Get(result, "enhanced_skill_analysis", <<>>), "detected_role", "unknown")

\* _analyze_role_distribution
analyze_role_distribution(results) ==
    [role \in {role_of_result(results[i]) : i \in 1..Len(results)} |->
        Cardinality({i \in 1..Len(results) : role_of_result(results[i]) = role})]

\* _analyze_skill_intelligence_impact
analyze_skill_intelligence_impact(results) ==
    LET synonym_matches ==
            SumSeq([i \in 1..Len(results) |->
                Len(Get(Get(results[i], "enhanced_skill_analysis", <<>>),
                        "synonym_matches", <<>>))])
        relationship_bonuses ==
            SumSeq([i \in 1..Len(results) |->
                Cardinality(DOMAIN Get(Get(results[i], "enhanced_skill_analysis", <<>>),
                                       "skill_relationship_bonuses", <<>>))])
    IN  [total_synonym_matches |-> synonym_matches,
         total_relationship_bonuses |-> relationship_bonuses,
         intelligence_utilization |->
            IF synonym_matches + relationship_bonuses > Len(results)
            THEN "high" ELSE "moderate"]

\* _analyze_quality_tiers
analyze_quality_tiers(results) ==
    IF results = <<>> THEN <<>> ELSE [basic |-> Len(results)]

\* the batch_result dict for the sorted results (without the clock readings)
batch_result_of(resume_data_list, results, successful_count) ==
    LET valid_scores ==
            SelectSeq([i \in 1..Len(results) |-> results[i].overall_score],
                      LAMBDA s : RGt(s, I(0)))
        count(from, below) ==
            Len(SelectSeq(valid_scores, LAMBDA s : RGe(s, I(from)) /\ RLt(s, I(below))))
    IN  [total_resumes |-> Len(resume_data_list),
         processed_successfully |-> successful_count,
         failed_resumes |-> Len(resume_data_list) - successful_count,
         results |-> results,
         top_candidates |-> SelectSeq(SubSeq(results, 1, Min(5, Len(results))),
                                      LAMBDA r : RGt(r.overall_score, I(0))),
         average_score |->
            IF valid_scores # <<>>
            THEN Round1(RDiv(RSumSeq(valid_scores), I(Len(valid_scores))))
            ELSE I(0),
         score_distribution |->
            [excellent_90_plus |-> count(90, 101),
             good_70_89 |-> count(70, 90),
             moderate_50_69 |-> count(50, 70),
             poor_below_50 |-> count(0, 50)],
         enhancement_analytics |->
            [role_distribution |-> analyze_role_distribution(results),
             skill_intelligence_impact |-> analyze_skill_intelligence_impact(results),
             quality_tier_distribution |-> analyze_quality_tiers(results)],
         analysis_version |-> "enhanced_3.0"]

-----------------------------------------------------------------------------
(* The text endpoints: a handler validates its text fields and calls the    *)
(* AI collaborator inside one try block whose handler catches Exception;    *)
(* HTTPException is an Exception. ai_raises says whether the collaborator,  *)
(* if called, raises.                                                       *)

\* what `except Exception` makes of the outcome of the try block: a raised
\* HTTPException, like any other exception, is answered with status 500
except_exception(outcome) ==
    IF outcome.raised THEN [status_code |-> 500, ai_calls |-> outcome.ai_calls]
    ELSE [status_code |-> 200, ai_calls |-> outcome.ai_calls]

\* the try block of a handler with one required text and one collaborator call
text_then_ai(text, ai_raises) ==
    IF Strip(text) = "" THEN [raised |-> TRUE, status_code |-> 400, ai_calls |-> 0]
    ELSE [raised |-> ai_raises, status_code |-> 500, ai_calls |-> 1]

\* POST /score-resume-text
score_resume_from_text(resume_text, job_description, ai_raises) ==
    except_exception(
        IF Strip(resume_text) = "" THEN [raised |-> TRUE, status_code |-> 400, ai_calls |-> 0]
        ELSE IF Strip(job_description) = ""
        THEN [raised |-> TRUE, status_code |-> 400, ai_calls |-> 0]
        ELSE IF ai_raises THEN [raised |-> TRUE, status_code |-> 500, ai_calls |-> 1]
        ELSE [raised |-> FALSE, status_code |-> 200, ai_calls |-> 2])

\* POST /enhance-job-description
enhance_job_description(description, ai_raises) ==
    except_exception(text_then_ai(description, ai_raises))

\* POST /analyze-job
analyze_job_description(description, ai_raises) ==
    except_exception(text_then_ai(description, ai_raises))

\* POST /analyze-resume-text
analyze_resume_text(resume_text, ai_raises) ==
    except_exception(text_then_ai(resume_text, ai_raises))

-----------------------------------------------------------------------------
(* Function-level harness: one action per function under test, applied to  *)
(* arguments drawn from bounded sets; `call` records the application.      *)

engine_init ==
    [base_weights |-> base_weights_init,
     role_specific_weights |-> role_specific_weights_init,
     skill_intelligence |-> [synonyms |-> synonyms_init,
                             relationships |-> relationships_init],
     experience_quality_indicators |-> experience_quality_indicators_init,
     red_flag_patterns |-> red_flag_patterns_init]

\* pillar scores offered to the aggregator
PillarSamples == {I(0), I(10), R(145, 2), I(100)}

\* red-flag penalties offered to the aggregator: the subset sums of
\* 0.15, 0.08 and 0.05 capped at 0.25
PenaltySamples == {R(p, 100) : p \in {0, 5, 8, 13, 15, 20, 23, 25}}

\* the arguments offered to _calculate_enhanced_weighted_scores
AggregateArgs ==
    {[fn |-> "calculate_enhanced_weighted_scores", done |-> FALSE,
      detailed_scoring |-> [required_skills_score |-> s1, experience_score |-> s2,
                            education_score |-> s3,
                            additional_qualifications_score |-> s4],
      red_flag_analysis |-> [total_penalty |-> p],
      detected_role |-> role] :
        s1 \in PillarSamples, s2 \in PillarSamples, s3 \in PillarSamples,
        s4 \in PillarSamples, p \in PenaltySamples, role \in Roles \cup {UnknownRole}}

\* the record of a completed application: the arguments and the value
Returned(c, value) ==
    [k \in DOMAIN c \cup {"out"} |->
        IF k = "out" THEN value ELSE IF k = "done" THEN TRUE ELSE c[k]]

\* the arguments offered to _get_role_specific_weights_fixed
GetWeightsArgs ==
    {[fn |-> "get_role_specific_weights_fixed", done |-> FALSE, detected_role |-> role] :
        role \in Roles \cup {UnknownRole}}

\* the skill categories of the data model
Categories == {"programming_languages", "web_frameworks", "databases", "cloud_platforms",
               "devops_tools", "data_tools", "frontend_tools", "mobile_development",
               "testing_tools", "version_control", "project_management",
               "other_technical", "soft_skills"}

\* the proficiency tiers, lowest first
ProficiencyTiers == <<"beginner", "intermediate", "advanced", "expert">>

MaxYears == 7
MaxRequired == 2
MaxCandidate == 2

YearsSamples == {0, 1, 5, MaxYears}

\* candidate skill items: dicts with the three fields (a recognised tier or
\* the unrecognised "guru"), dicts with a name only, and plain strings
FullItems ==
    {[name |-> n, proficiency |-> p, years_experience |-> y] :
        n \in {"python", "Python", "JavaScript", "js", "react"},
        p \in {"beginner", "intermediate", "advanced", "expert", "guru"},
        y \in YearsSamples}
SimpleItems == {[name |-> "js"], [str |-> "react"], [str |-> "Python"], [str |-> "nodejs"],
                [str |-> ""]}

\* the sequences of length 1..n whose first element is in `first` and whose
\* other elements are in `rest`
RECURSIVE ListsUpTo(_, _, _)
ListsUpTo(first, rest, n) ==
    IF n = 0 THEN {}
    ELSE LET shorter == ListsUpTo(first, rest, n - 1)
         IN  {<<x>> : x \in first}
             \cup {Append(l, y) : l \in {m \in shorter : Len(m) = n - 1}, y \in rest}
             \cup shorter

RequiredNames == {"python", "js", "javascript", "docker"}
RequiredLists == {<<>>} \cup ListsUpTo(RequiredNames, {"python", "js"}, MaxRequired)
CandidateLists ==
    ListsUpTo(FullItems \cup SimpleItems,
              {[name |-> "js"], [str |-> "Python"], [str |-> "nodejs"]}, MaxCandidate)

\* the arguments offered to _match_skills_with_intelligence
MatchArgs ==
    {[fn |-> "match_skills_with_intelligence", done |-> FALSE,
      candidate_skills |-> c, required_skills |-> r, category |-> "programming_languages"] :
        c \in CandidateLists, r \in RequiredLists}

\* the arguments offered to _score_enhanced_skills_match: requirements and
\* declared skills in one category c and in "databases"
SkillsArgs ==
    {[fn |-> "score_enhanced_skills_match", done |-> FALSE,
      resume_analysis |-> [skills_by_category |-> (c :> cand1) @@ ("databases" :> cand2)],
      job_analysis |-> [required_skills |-> (c :> req1) @@ ("databases" :> req2)],
      detected_role |-> role] :
        c \in Categories,
        cand1 \in {<<>>, <<[name |-> "python", proficiency |-> "expert",
                            years_experience |-> 5]>>, <<[str |-> "react"]>>},
        req1 \in {<<>>, <<"python">>, <<"js", "docker">>},
        cand2 \in {<<>>, <<[str |-> "sql"]>>},
        req2 \in {<<>>, <<"sql">>},
        role \in Roles \cup {UnknownRole}}

MaxJobs == 6

\* work-history entries by duration: 11 and 12 months, no duration_months,
\* and a duration that is not a number
JobSamplesByDuration ==
    {[title |-> "Developer", duration_months |-> 11],
     [title |-> "Developer", duration_months |-> 12],
     [title |-> "Developer"],
     [title |-> "Developer", duration_text |-> "6 months"]}

\* the work histories offered to _detect_red_flags: up to MaxJobs entries
WorkHistories ==
    {<<>>} \cup ListsUpTo(JobSamplesByDuration,
                          {j \in JobSamplesByDuration : DOMAIN j # {"title"}},
                          MaxJobs)

\* a work history with dates: with gaps = 0 every job ends where the next
\* starts, with gaps = 1 the first job's end date carries the word "gap",
\* with gaps = 2 every end date does
with_dates(work_history, gaps) ==
    [i \in 1..Len(work_history) |->
        [k \in DOMAIN work_history[i] \cup {"start_date", "end_date"} |->
            IF k = "start_date" THEN "2021-06"
            ELSE IF k = "end_date"
            THEN (IF gaps = 2 \/ (gaps = 1 /\ i = 1) THEN "2022-02 gap" ELSE "2023-07")
            ELSE work_history[i][k]]]

\* the arguments offered to _detect_red_flags
RedFlagArgs ==
    {[fn |-> "detect_red_flags", done |-> FALSE,
      resume_analysis |-> [work_history |-> with_dates(w, gy[1]),
                           experience_analysis |-> [total_years |-> gy[2]]]] :
        w \in WorkHistories, gy \in {<<0, 15>>, <<1, 16>>, <<2, 16>>}}
    \cup {[fn |-> "detect_red_flags", done |-> FALSE,
           resume_analysis |-> [work_history |-> with_dates(w, gy[1]),
                                experience_analysis |-> [total_years |-> gy[2]]]] :
             w \in {h \in WorkHistories :
                        Len(h) <= red_flag_patterns_init.job_hopping.threshold},
             gy \in {<<0, 16>>, <<1, 15>>}}

MaxCount == 4

\* required skills that count for one technology list each, six of
\* each kind
frontend_skill_pool == <<"Angular", "vue", "css", "bootstrap", "typescript", "jsx">>
backend_skill_pool == <<"Django", "flask", "fastapi", "php", "laravel", "ruby">>
devops_skill_pool == <<"docker", "kubernetes", "jenkins", "terraform", "ansible", "ci/cd">>
data_skill_pool == <<"pandas", "numpy", "pytorch", "jupyter", "spark", "tensorflow">>
mobile_skill_pool == <<"android", "swift", "kotlin", "flutter", "xamarin", "ios">>

\* job titles: one without and two with an explicit multi-stack phrase
RoleSummaries ==
    {"Software Engineer", "Full Stack Engineer", "Engineer for frontend and backend"}

\* the jobs offered to _detect_role_type under each title: 0..MaxCount
\* frontend and backend skills, and no devops, data or mobile skill or a
\* number at the rule's threshold (4, 4 and 3) or one off it
RoleArgs ==
    {[fn |-> "detect_role_type", done |-> FALSE,
      job_analysis |->
        [summary |-> title,
         required_skills |->
            [frontend_tools |-> SubSeq(frontend_skill_pool, 1, f),
             web_frameworks |-> SubSeq(backend_skill_pool, 1, b),
             devops_tools |-> SubSeq(devops_skill_pool, 1, d),
             data_tools |-> SubSeq(data_skill_pool, 1, a),
             mobile_development |-> SubSeq(mobile_skill_pool, 1, m)]]] :
        title \in RoleSummaries, f \in 0..MaxCount, b \in 0..MaxCount,
        d \in {0, MaxCount - 1, MaxCount}, a \in {0, MaxCount - 1, MaxCount},
        m \in {0, MaxCount - 2, MaxCount - 1}}

\* the scores offered to _get_enhanced_recommendation: 0, 0.5, ..., 100
RecommendArgs ==
    {[fn |-> "get_enhanced_recommendation", done |-> FALSE, overall_score |-> R(k, 2)] :
        k \in 0..200}

\* the texts offered to the text endpoints: empty, blank, and a text
EndpointTexts == {"", "  ", "Senior Python Developer"}

\* the requests offered to the four text endpoints
EndpointArgs ==
    {[fn |-> "score_resume_from_text", done |-> FALSE, resume_text |-> t,
      job_description |-> u, ai_raises |-> x] :
        t \in EndpointTexts, u \in EndpointTexts, x \in BOOLEAN}
    \cup {[fn |-> f, done |-> FALSE, text |-> t, ai_raises |-> x] :
            f \in {"enhance_job_description", "analyze_job_description",
                   "analyze_resume_text"},
            t \in EndpointTexts, x \in BOOLEAN}

MaxExperience == 6

\* the years offered to _calculate_base_experience_score
BaseExperienceArgs ==
    {[fn |-> "calculate_base_experience_score", done |-> FALSE,
      relevant_years |-> r, min_required |-> m] :
        r \in 0..(MaxExperience + 3), m \in 0..MaxExperience}

\* the profiles and jobs offered to _score_enhanced_experience: relevant
\* years absent, zero or positive, beside each total
ExperienceArgs ==
    {[fn |-> "score_enhanced_experience", done |-> FALSE,
      resume_analysis |-> [experience_analysis |-> ea, work_history |-> <<>>],
      job_analysis |-> [minimum_experience |-> m]] :
        ea \in {[total_years |-> t] : t \in {0, 3, MaxExperience + 3}}
                \cup {[total_years |-> t, relevant_years |-> r] :
                        t \in {0, 3, MaxExperience + 3}, r \in {0, 2, MaxExperience}},
        m \in {0, 5}}

MaxDegrees == 2

\* degrees of the three recognised levels and of an unrecognised one, with
\* and without a field
DegreeSamples ==
    {[level |-> "Bachelor's", field |-> "Computer Science"],
     [level |-> "Master's"],
     [level |-> "PhD", field |-> "Physics"],
     [level |-> "Associate", field |-> "Computer Science"]}

\* the profiles and jobs offered to _score_education_match
EducationArgs ==
    {[fn |-> "score_education_match", done |-> FALSE,
      resume_analysis |-> [education |-> [degrees |-> degrees, certifications |-> certs]],
      job_analysis |->
        [education_requirements |->
            [required_degree |-> required, field_of_study |-> fields,
             certifications |-> required_certs]]] :
        degrees \in {<<>>} \cup ListsUpTo(DegreeSamples, DegreeSamples, MaxDegrees),
        certs \in {<<>>, <<[name |-> "AWS Certified Developer"]>>},
        required \in {None, "Bachelor's", "Master's", "PhD", "Diploma"},
        fields \in {<<>>, <<"Computer Science">>},
        required_certs \in {<<>>, <<"AWS Certified">>, <<"AWS Certified", "PMP">>}}

\* no batch is submitted
BatchIdle ==
    /\ jobAnalysis = <<>>
    /\ resumeDataList = <<>>
    /\ resultsList = <<>>
    /\ successfulCount = 0
    /\ calls = <<>>
    /\ batchResult = <<>>
    /\ pc = "idle"

InitFn ==
    /\ engine = engine_init
    /\ call \in AggregateArgs \cup GetWeightsArgs \cup MatchArgs \cup SkillsArgs
                \cup RedFlagArgs \cup RoleArgs \cup RecommendArgs \cup EndpointArgs
                \cup BaseExperienceArgs \cup ExperienceArgs \cup EducationArgs
    /\ BatchIdle

CallAggregate ==
    /\ call.fn = "calculate_enhanced_weighted_scores"
    /\ ~call.done
    /\ call' = Returned(call, calculate_enhanced_weighted_scores(
                    call.detailed_scoring, call.red_flag_analysis, call.detected_role))
    /\ UNCHANGED engine
    /\ UNCHANGED batch_vars

CallGetWeights ==
    /\ call.fn = "get_role_specific_weights_fixed"
    /\ ~call.done
    /\ call' = Returned(call, get_role_specific_weights_fixed(call.detected_role))
    /\ engine' = [engine EXCEPT !.role_specific_weights =
                                    role_specific_weights_after(call.detected_role)]
    /\ UNCHANGED batch_vars

CallMatch ==
    /\ call.fn = "match_skills_with_intelligence"
    /\ ~call.done
    /\ call' = Returned(call, match_skills_with_intelligence(
                    call.candidate_skills, call.required_skills, call.category))
    /\ UNCHANGED engine
    /\ UNCHANGED batch_vars

CallSkills ==
    /\ call.fn = "score_enhanced_skills_match"
    /\ ~call.done
    /\ call' = Returned(call, score_enhanced_skills_match(
                    call.resume_analysis, call.job_analysis, call.detected_role))
    /\ engine' = [engine EXCEPT !.role_specific_weights =
                                    role_specific_weights_after(call.detected_role)]
    /\ UNCHANGED batch_vars

CallRedFlags ==
    /\ call.fn = "detect_red_flags"
    /\ ~call.done
    /\ call' = Returned(call, detect_red_flags(call.resume_analysis))
    /\ UNCHANGED engine
    /\ UNCHANGED batch_vars

CallDetectRole ==
    /\ call.fn = "detect_role_type"
    /\ ~call.done
    /\ call' = Returned(call, detect_role_type(call.job_analysis, <<>>))
    /\ UNCHANGED engine
    /\ UNCHANGED batch_vars

CallRecommend ==
    /\ call.fn = "get_enhanced_recommendation"
    /\ ~call.done
    /\ call' = Returned(call, get_enhanced_recommendation(call.overall_score))
    /\ UNCHANGED engine
    /\ UNCHANGED batch_vars

CallEndpoint ==
    /\ call.fn \in {"score_resume_from_text", "enhance_job_description",
                    "analyze_job_description", "analyze_resume_text"}
    /\ ~call.done
    /\ call' = Returned(call,
            CASE call.fn = "score_resume_from_text" ->
                    score_resume_from_text(call.resume_text, call.job_description,
                                           call.ai_raises)
              [] call.fn = "enhance_job_description" ->
                    enhance_job_description(call.text, call.ai_raises)
              [] call.fn = "analyze_job_description" ->
                    analyze_job_description(call.text, call.ai_raises)
              [] call.fn = "analyze_resume_text" ->
                    analyze_resume_text(call.text, call.ai_raises))
    /\ UNCHANGED engine
    /\ UNCHANGED batch_vars

CallBaseExperience ==
    /\ call.fn = "calculate_base_experience_score"
    /\ ~call.done
    /\ call' = Returned(call, calculate_base_experience_score(call.relevant_years,
                                                              call.min_required))
    /\ UNCHANGED engine
    /\ UNCHANGED batch_vars

CallExperience ==
    /\ call.fn = "score_enhanced_experience"
    /\ ~call.done
    /\ call' = Returned(call, score_enhanced_experience(call.resume_analysis,
                                                        call.job_analysis))
    /\ UNCHANGED engine
    /\ UNCHANGED batch_vars

CallEducation ==
    /\ call.fn = "score_education_match"
    /\ ~call.done
    /\ call' = Returned(call, score_education_match(call.resume_analysis, call.job_analysis))
    /\ UNCHANGED engine
    /\ UNCHANGED batch_vars

NextFn ==
    \/ CallAggregate \/ CallGetWeights \/ CallMatch \/ CallSkills \/ CallRedFlags
    \/ CallDetectRole \/ CallRecommend \/ CallEndpoint
    \/ CallBaseExperience \/ CallExperience \/ CallEducation

SpecFn == InitFn /\ [][NextFn]_vars

-----------------------------------------------------------------------------
(* The batch: score_multiple_resumes over a submitted list of resumes.      *)
(* A resume text stands for itself; the collaborator's answer on it is     *)
(* AnalyzerAnswers[text].                                                   *)

\* job profiles, resume profiles and string answers of the model
job_backend ==
    [summary |-> "Senior Python Developer", key_responsibilities |->
      "Build REST API services with Django", seniority_level |-> "senior",
      required_skills |-> [programming_languages |-> <<"python">>, web_frameworks |-> <<"django"
      >>, databases |-> <<"postgresql">>], minimum_experience |-> 5,
      education_requirements |-> [required_degree |-> "Bachelor's", field_of_study |-> <<
      "computer science">>, certifications |-> <<"AWS Certified">>]]

job_fullstack ==
    [summary |-> "Full Stack Engineer", key_responsibilities |-> "Own features end to end",
      seniority_level |-> "mid", required_skills |-> [programming_languages |-> <<"js">>,
      web_frameworks |-> <<"react">>], minimum_experience |-> 0,
      education_requirements |-> <<>>]

job_empty ==
    [summary |-> "", key_responsibilities |-> "", seniority_level |-> "",
      required_skills |-> <<>>, minimum_experience |-> 0, education_requirements |-> <<>>]

profile_strong ==
    [contact_info |-> [name |-> "Ada", email |-> "ada@example.com"],
      skills_by_category |-> [programming_languages |-> <<[name |-> "Python", proficiency |->
      "expert", years_experience |-> 5]>>, web_frameworks |-> <<[name |-> "django",
      proficiency |-> "advanced", years_experience |-> 3]>>, databases |-> <<[str |-> "postgres"
      ]>>, soft_skills |-> <<[str |-> "communication"]>>], work_history |-> <<[title |->
      "Tech Lead", key_achievements |-> <<"Led team of 5 engineers", "Reduced latency by 40%">>,
      technologies_used |-> <<"python">>, duration_months |-> 36, start_date |-> "2021-01",
      end_date |-> "present"], [title |-> "Developer", key_achievements |-> <<>>,
      technologies_used |-> <<"django">>, duration_months |-> 30, start_date |-> "2018-01",
      end_date |-> "2020-12"]>>, education |-> [degrees |-> <<[level |-> "Bachelor's",
      field |-> "Computer Science"]>>, certifications |-> <<[name |-> "AWS Certified Developer"
      ]>>], projects |-> <<[name |-> "a"], [name |-> "b"]>>,
      experience_analysis |-> [total_years |-> 6, relevant_years |-> 5, current_level |->
      "senior"], resume_quality |-> [overall_quality |-> 80],
      leadership_indicators |-> [has_leadership_experience |-> TRUE],
      career_insights |-> [specializations |-> <<"backend">>, career_trajectory |-> "ascending",
      innovation_indicators |-> <<"x">>]]

\* the strong profile with django at expert level, no database skill, a
\* resume quality of 50 and 4 relevant years: scored against job_backend,
\* its overall score is 89.97 before rounding
profile_near_tier ==
    [profile_strong EXCEPT !.skills_by_category.web_frameworks[1].proficiency = "expert",
                           !.skills_by_category.databases = <<>>,
                           !.resume_quality.overall_quality = 50,
                           !.experience_analysis.relevant_years = 4]

profile_hopper ==
    [contact_info |-> [name |-> "Bob"],
      skills_by_category |-> [programming_languages |-> <<[str |-> "js"]>>,
      web_frameworks |-> <<[str |-> "react"]>>], work_history |-> <<[title |-> "Developer",
      duration_months |-> 6, start_date |-> "2023-01", end_date |-> "2023-07"], [title |->
      "Developer", duration_months |-> 8, start_date |-> "2021-06", end_date |-> "2022-02 gap"],
      [title |-> "Developer", duration_months |-> 10, start_date |-> "2020-01", end_date |->
      "2020-11"]>>, education |-> [degrees |-> <<>>, certifications |-> <<>>],
      experience_analysis |-> [total_years |-> 16, relevant_years |-> 0, current_level |-> "mid"
      ]]

profile_minimal ==
    [candidate_summary |-> "n/a"]

profile_parsed ==
    [experience_analysis |-> [total_years |-> 3],
      skills_by_category |-> [programming_languages |-> <<[str |-> "python"]>>]]

str_json ==
    "Profile: {\"experience_analysis\": {\"total_years\": 3}, \"skills_by_category\": {\"programming_languages\": [\"python\"]}}"

str_plain ==
    "I could not read this resume"

str_broken ==
    "{not json}"

JobSamples == <<job_backend, job_fullstack, job_empty>>

\* ai_analyzer.analyze_resume_content on the model's resume texts
AnalyzerAnswers ==
    [strong       |-> [kind |-> "dict", value |-> profile_strong],
     hopper       |-> [kind |-> "dict", value |-> profile_hopper],
     near_tier    |-> [kind |-> "dict", value |-> profile_near_tier],
     minimal      |-> [kind |-> "dict", value |-> profile_minimal],
     json_in_text |-> [kind |-> "str", value |-> str_json],
     plain_text   |-> [kind |-> "str", value |-> str_plain],
     broken_json  |-> [kind |-> "str", value |-> str_broken],
     no_answer    |-> [kind |-> "none"],
     unreadable   |-> [kind |-> "raises", message |-> "Failed to analyze resume"]]

analyze_resume_content(resume_text) == AnalyzerAnswers[resume_text]

MaxBatch == 3

Filenames == <<"r1.pdf", "r2.pdf", "r3.pdf", "r4.pdf", "r5.pdf", "r6.pdf", "r7.pdf", "r8.pdf">>

\* the resumes offered alone: every text with no failing scorer, and the
\* strong resume with each single failing scorer
SingleInputs ==
    {[text |-> t, faults |-> {}] : t \in DOMAIN AnalyzerAnswers}
    \cup {[text |-> "strong", faults |-> {s}] : s \in Steps}

\* the resumes offered in batches of two and more
BatchInputs ==
    {[text |-> t, faults |-> {}] :
        t \in {"strong", "hopper", "minimal", "json_in_text", "unreadable"}}
    \cup {[text |-> "strong", faults |-> {s}] : s \in {"experience", "education"}}
    \cup {[text |-> "unreadable", faults |-> {"experience"}]}

MaxLong == 7

\* the long batches, of MaxLong resumes: the strong resume, scored or failing
\* in the experience scorer, MaxLong - 1 times, and then one more resume
LongRequests ==
    {Append(l, r) :
        l \in {m \in ListsUpTo({[text |-> "strong", faults |-> {}],
                                [text |-> "strong", faults |-> {"experience"}]},
                               {[text |-> "strong", faults |-> {}],
                                [text |-> "strong", faults |-> {"experience"}]},
                               MaxLong - 1) : Len(m) = MaxLong - 1},
        r \in {[text |-> "strong", faults |-> {}], [text |-> "hopper", faults |-> {}],
               [text |-> "strong", faults |-> {"experience"}],
               [text |-> "strong", faults |-> {"final"}]}}

\* the submitted lists: the empty list, one resume, 2..MaxBatch resumes, and
\* the long batches
Requests ==
    {<<>>} \cup {<<r>> : r \in SingleInputs}
    \cup {l \in ListsUpTo(BatchInputs,
                          BatchInputs \ {[text |-> "strong", faults |-> {"education"}],
                                         [text |-> "unreadable", faults |-> {"experience"}]},
                          MaxBatch) : Len(l) >= 2}
    \cup LongRequests

\* resume_data_list of a request: the i-th resume is uploaded as Filenames[i];
\* `faults` stands for what makes scorers raise on this resume
resume_data_list_of(request) ==
    [i \in 1..Len(request) |->
        [filename |-> Filenames[i], text |-> request[i].text, faults |-> request[i].faults]]

\* what score_resume_against_job does on one element of resume_data_list
score_resume_data(resume_data, job_analysis) ==
    score_resume_against_job(analyze_resume_content(resume_data.text), job_analysis,
                             resume_data.filename, resume_data.faults)

\* the record kept of a call: the resume, the analysis that step 1 settled
\* on, and what the call returned
call_record(resume_data, returned) ==
    [resume_data |-> resume_data,
     resume_analysis |->
        with_required_keys(resume_analysis_of(analyze_resume_content(resume_data.text))),
     returned |-> returned]

Init ==
    /\ engine = engine_init
    /\ call = [fn |-> "none", done |-> TRUE]
    /\ \E j \in 1..Len(JobSamples) : jobAnalysis = JobSamples[j]
    /\ \E request \in Requests : resumeDataList = resume_data_list_of(request)
    /\ resultsList = <<>>
    /\ successfulCount = 0
    /\ calls = <<>>
    /\ batchResult = <<>>
    /\ pc = "scoring"

\* one iteration of the loop: the next resume is scored; its result, or an
\* error entry when the call raised, is appended to results
ScoreNextResume ==
    /\ pc = "scoring"
    /\ Len(calls) < Len(resumeDataList)
    /\ \E returned \in {score_resume_data(resumeDataList[Len(calls) + 1], jobAnalysis)} :
          /\ resultsList' = Append(resultsList,
                                   IF returned.raised
                                   THEN error_entry(resumeDataList[Len(calls) + 1].filename,
                                                    returned.message)
                                   ELSE returned.value)
          /\ successfulCount' = IF returned.raised THEN successfulCount
                                ELSE successfulCount + 1
          /\ calls' = Append(calls, call_record(resumeDataList[Len(calls) + 1], returned))
    /\ engine' = [engine EXCEPT !.role_specific_weights =
                    role_specific_weights_after(detect_role_type(jobAnalysis, <<>>))]
    /\ UNCHANGED <<call, jobAnalysis, resumeDataList, batchResult, pc>>

\* after the loop: results is sorted and the batch result is compiled
CompileBatch ==
    /\ pc = "scoring"
    /\ Len(calls) = Len(resumeDataList)
    /\ \E sorted \in {SortedByScore(resultsList)} :
          /\ resultsList' = sorted
          /\ batchResult' = batch_result_of(resumeDataList, sorted, successfulCount)
    /\ pc' = "done"
    /\ UNCHANGED <<engine, call, jobAnalysis, resumeDataList, successfulCount, calls>>

Next == ScoreNextResume \/ CompileBatch

Spec == Init /\ [][Next]_vars

-----------------------------------------------------------------------------
\* C1: for any four pillar scores in [0,100], any role and any red-flag
\* penalty in [0,0.25], the overall_score returned by the aggregator lies
\* in [0,100].
C1_OverallScoreInRange ==
    (call.fn = "calculate_enhanced_weighted_scores" /\ call.done) =>
        /\ RGe(call.out.overall_score, I(0))
        /\ RLe(call.out.overall_score, I(100))

\* the aggregator was applied to four full pillar scores under a role whose
\* multipliers do not sum to the base total, with the maximal penalty
C1_Witness ==
    /\ call.fn = "calculate_enhanced_weighted_scores"
    /\ call.done
    /\ call.detected_role = "frontend_developer"
    /\ call.detailed_scoring.required_skills_score = I(100)
    /\ call.detailed_scoring.experience_score = I(100)
    /\ call.detailed_scoring.education_score = I(100)
    /\ call.detailed_scoring.additional_qualifications_score = I(100)
    /\ call.red_flag_analysis.total_penalty = R(25, 100)
    /\ call.out.overall_score = I(75)

-----------------------------------------------------------------------------
(* Properties of the skill scorer                                          *)

SkillsReturned == call.fn = "score_enhanced_skills_match" /\ call.done
MatchReturned == call.fn = "match_skills_with_intelligence" /\ call.done

\* the job's required list and the candidate's declared list in a category
RequiredIn(c) == Get(call.job_analysis.required_skills, c, <<>>)
DeclaredIn(c) == Get(call.resume_analysis.skills_by_category, c, <<>>)

-----------------------------------------------------------------------------
-----------------------------------------------------------------------------
-----------------------------------------------------------------------------
\* C4: a result computed from a defaulted input carries a record of which
\* inputs were defaulted and a result computed from fully supplied inputs
\* carries none; so the result of a call in which a scorer failed and its
\* pillar was defaulted is never the result the same call returns when no
\* scorer fails.
C4_DegradedResultsCarryDefaultRecord ==
    \A i \in 1..Len(calls) :
        (/\ calls[i].resume_data.faults # {}
         /\ ~calls[i].returned.raised) =>
            calls[i].returned.value #
                score_resume_data([calls[i].resume_data EXCEPT !.faults = {}],
                                  jobAnalysis).value

-----------------------------------------------------------------------------
C6_CriticalCategoryZeroCredit ==
    (SkillsReturned /\ call.detected_role \in Roles) =>
        LET table == engine.role_specific_weights[call.detected_role]
        IN  \A i \in 1..Len(table) :
                LET c == table[i][1]
                IN  (RGe(table[i][2], R(25, 100)) /\ RequiredIn(c) # <<>>
                     /\ DeclaredIn(c) = <<>>) =>
                        /\ ItemValue(call.out.category_coverage, c) = I(0)
                        /\ \A j \in 1..Len(RequiredIn(c)) :
                              \E k \in 1..Len(call.out.missing_critical) :
                                  /\ call.out.missing_critical[k].skill = RequiredIn(c)[j]
                                  /\ call.out.missing_critical[k].category = c
                                  /\ call.out.missing_critical[k].critical

\* C7: for every category with a non-zero weight in the detected role's map
\* in which the job requires nothing, the category score is 100 whatever the
\* candidate declares and no skill of the category is recorded missing; a job
\* that requires no skill at all gives a skill score of 100.
C7_NoRequirementFullMarks ==
    SkillsReturned =>
        LET w == call.out.role_weights_applied
        IN  /\ \A i \in 1..Len(w) :
                  (RGt(w[i][2], I(0)) /\ RequiredIn(w[i][1]) = <<>>) =>
                      /\ ItemValue(call.out.category_coverage, w[i][1]) = I(100)
                      /\ \A k \in 1..Len(call.out.missing_skills) :
                            call.out.missing_skills[k].category # w[i][1]
            /\ (\A c \in DOMAIN call.job_analysis.required_skills : RequiredIn(c) = <<>>)
                  => call.out.score = I(100)

\* a job without any requirement scored against a candidate who declares
\* skills in two categories
C7_Witness ==
    /\ SkillsReturned
    /\ \A c \in DOMAIN call.job_analysis.required_skills : RequiredIn(c) = <<>>
    /\ DeclaredIn("programming_languages") # <<>>
    /\ DeclaredIn("databases") # <<>>
    /\ call.detected_role = "devops_engineer"
    /\ call.out.score = I(100)

\* C8: the weights used in scoring sum to 1: the category-weight map
\* returned for each archetype and for an unknown role, and the four pillar
\* weights after the role's multipliers.
C8_WeightsSumToOne ==
    /\ (call.fn = "get_role_specific_weights_fixed" /\ call.done)
          => RSumSeq(Values(call.out)) = I(1)
    /\ SkillsReturned => RSumSeq(Values(call.out.role_weights_applied)) = I(1)
    /\ (call.fn = "calculate_enhanced_weighted_scores" /\ call.done)
          => RSum(call.out.adjusted_weights) = I(1)

\* the weights of a role whose table entries sum to 1.45 were requested
C8_Witness ==
    /\ call.fn = "get_role_specific_weights_fixed"
    /\ call.done
    /\ call.detected_role = "backend_developer"
    /\ RSumSeq(Values(engine.role_specific_weights["backend_developer"])) = R(145, 100)
    /\ ItemValue(call.out, "programming_languages") = R(35, 145)

\* the candidate list with item i's proficiency replaced by tier t
WithProficiency(candidate_skills, i, t) ==
    [candidate_skills EXCEPT ![i] =
        [k \in DOMAIN candidate_skills[i] |->
            IF k = "proficiency" THEN ProficiencyTiers[t] ELSE candidate_skills[i][k]]]

\* the tier (1..4) of a dict item's declared proficiency, 0 when it has none
\* of the four
TierOf(skill_item) ==
    IF IsDict(skill_item) /\ "proficiency" \in DOMAIN skill_item
       /\ \E t \in 1..4 : ProficiencyTiers[t] = skill_item.proficiency
    THEN CHOOSE t \in 1..4 : ProficiencyTiers[t] = skill_item.proficiency
    ELSE 0

\* C9: with the required skills, the other candidate skills, the years and
\* the match type fixed, raising a candidate skill's proficiency tier never
\* decreases the match score of any required skill nor the category score.
C9_ProficiencyMonotone ==
    MatchReturned =>
        \A i \in 1..Len(call.candidate_skills) :
            \A t \in 1..4 :
                (TierOf(call.candidate_skills[i]) >= 1
                 /\ t > TierOf(call.candidate_skills[i])) =>
                    LET raised == match_skills_with_intelligence(
                                      WithProficiency(call.candidate_skills, i, t),
                                      call.required_skills, call.category)
                    IN  /\ Len(raised.matches) = Len(call.out.matches)
                        /\ \A k \in 1..Len(call.out.matches) :
                              /\ raised.matches[k].skill = call.out.matches[k].skill
                              /\ raised.matches[k].match_type = call.out.matches[k].match_type
                              /\ RGe(raised.matches[k].score, call.out.matches[k].score)
                        /\ RGe(raised.score, call.out.score)

\* a beginner's synonym match whose score strictly grows with each tier
C9_Witness ==
    /\ MatchReturned
    /\ call.candidate_skills = <<[name |-> "JavaScript", proficiency |-> "beginner",
                                  years_experience |-> 1]>>
    /\ call.required_skills = <<"js">>
    /\ call.out.matches[1].score = R(589, 10)
    /\ match_skills_with_intelligence(WithProficiency(call.candidate_skills, 1, 3),
                                      call.required_skills, call.category).score
          = R(874, 10)

\* C10: a matched required skill scores min((P + min(2*years, 10)) * M, 100),
\* P = 100/90/80/60 by proficiency (80 otherwise), M = 1.0/0.95/0.85 by match
\* type; the category score is the sum of the match scores over the number of
\* required skills, capped at 100; "python" matched exactly by an expert with
\* 5 years gives 100.
C10_MatchScoreFormula ==
    MatchReturned =>
        LET m == call.out.matches
            P(k) == IF m[k].proficiency = "expert" THEN 100
                    ELSE IF m[k].proficiency = "advanced" THEN 90
                    ELSE IF m[k].proficiency = "beginner" THEN 60
                    ELSE 80
            B(k) == IF 2 * m[k].years_experience < 10 THEN 2 * m[k].years_experience ELSE 10
            M(k) == IF m[k].match_type = "exact" THEN 100
                    ELSE IF m[k].match_type = "synonym" THEN 95
                    ELSE 85
            S(k) == RMin(R((P(k) + B(k)) * M(k), 100), I(100))
        IN  /\ \A k \in 1..Len(m) :
                  /\ m[k].match_type \in {"exact", "synonym", "related"}
                  /\ m[k].score = S(k)
            /\ call.required_skills # <<>> =>
                  call.out.score = RMin(RDiv(RSumSeq([k \in 1..Len(m) |-> S(k)]),
                                             I(Len(call.required_skills))), I(100))
            /\ (call.required_skills = <<"python">>
                /\ call.candidate_skills = <<[name |-> "python", proficiency |-> "expert",
                                              years_experience |-> 5]>>)
                  => (Len(m) = 1 /\ m[1].match_type = "exact" /\ call.out.score = I(100))

\* the scenario: required "python", candidate python/expert/5 years
C10_Witness ==
    /\ MatchReturned
    /\ call.required_skills = <<"python">>
    /\ call.candidate_skills = <<[name |-> "python", proficiency |-> "expert",
                                  years_experience |-> 5]>>
    /\ call.out.matches[1].score = I(100)
    /\ call.out.score = I(100)

-----------------------------------------------------------------------------
\* C11: when a required skill is a non-canonical variant of a synonym list
\* (such as "js") and the candidate declares a different variant of the same
\* list (such as "JavaScript"), both normalise to the list's canonical name,
\* the required skill is matched with match_type = synonym and is listed in
\* the synonym matches under that canonical name, and a match found at
\* intermediate proficiency with 0 years scores (80 + 0) * 0.95 = 76.
C11_SynonymVariantMatch ==
    MatchReturned =>
        \A r \in 1..Len(call.required_skills) :
            \A i \in 1..Len(call.candidate_skills) :
                \A s \in 1..Len(engine.skill_intelligence.synonyms) :
                    LET required_skill == call.required_skills[r]
                        declared == skill_item_fields(call.candidate_skills[i]).name
                        canonical == engine.skill_intelligence.synonyms[s][1]
                        variants == engine.skill_intelligence.synonyms[s][2]
                    IN  (/\ InList(Lower(required_skill), variants)
                         /\ Lower(required_skill) # canonical
                         /\ InList(Strip(Lower(declared)), variants)
                         /\ Strip(Lower(declared)) # Lower(required_skill)) =>
                            /\ normalize_skill(required_skill) = canonical
                            /\ normalize_skill(declared) = canonical
                            /\ \E k \in 1..Len(call.out.matches) :
                                  /\ call.out.matches[k].skill = required_skill
                                  /\ call.out.matches[k].match_type = "synonym"
                                  /\ (/\ call.out.matches[k].proficiency = "intermediate"
                                      /\ call.out.matches[k].years_experience = 0) =>
                                        call.out.matches[k].score = I(76)
                            /\ \E q \in 1..Len(call.out.synonyms) :
                                  /\ call.out.synonyms[q].required = required_skill
                                  /\ call.out.synonyms[q].normalized = canonical

\* the scenario: required "js", the candidate declares "JavaScript" at
\* intermediate proficiency with 0 years
C11_Witness ==
    /\ MatchReturned
    /\ call.required_skills = <<"js">>
    /\ call.candidate_skills = <<[name |-> "JavaScript", proficiency |-> "intermediate",
                                  years_experience |-> 0]>>
    /\ call.out.matches[1].match_type = "synonym"
    /\ call.out.matches[1].score = I(76)
    /\ call.out.synonyms = <<[required |-> "js", found |-> "JavaScript",
                              normalized |-> "javascript"]>>
    /\ call.out.score = I(76)

-----------------------------------------------------------------------------
(* Properties of the red-flag detector                                     *)

RedFlagsReturned == call.fn = "detect_red_flags" /\ call.done

\* the positions of the flags of a type in the returned flags_detected
FlagsOfType(type) ==
    {k \in 1..Len(call.out.flags_detected) : call.out.flags_detected[k].type = type}

\* C12: a job_hopping flag with penalty 0.15 is produced if and only if at
\* least 3 of the first five work_history entries have a numeric
\* duration_months below 12 (an entry without a numeric duration is not
\* short); the entries after the fifth do not change whether the flag is
\* produced; the flag is produced at most once.
C12_JobHoppingFlag ==
    RedFlagsReturned =>
        LET work_history == call.resume_analysis.work_history
            short == {i \in 1..Len(work_history) :
                        /\ i <= 5
                        /\ "duration_months" \in DOMAIN work_history[i]
                        /\ work_history[i].duration_months < 12}
            first_five == [call.resume_analysis EXCEPT !.work_history =
                              SubSeq(work_history, 1, IF Len(work_history) < 5
                                                      THEN Len(work_history) ELSE 5)]
        IN  /\ FlagsOfType("job_hopping") # {} <=> Cardinality(short) >= 3
            /\ Cardinality(FlagsOfType("job_hopping")) <= 1
            /\ \A k \in FlagsOfType("job_hopping") :
                  call.out.flags_detected[k].penalty = R(15, 100)
            /\ (\E k \in 1..Len(detect_red_flags(first_five).flags_detected) :
                    detect_red_flags(first_five).flags_detected[k].type = "job_hopping")
                  <=> FlagsOfType("job_hopping") # {}

\* a history of six jobs, the first two and the sixth of 11 months and one
\* with a duration that is not a number: three short jobs in all, two among
\* the first five, and no job_hopping flag
C12_Witness ==
    /\ RedFlagsReturned
    /\ Len(call.resume_analysis.work_history) = 6
    /\ \A i \in {1, 2, 6} :
          /\ "duration_months" \in DOMAIN call.resume_analysis.work_history[i]
          /\ call.resume_analysis.work_history[i].duration_months = 11
    /\ "duration_text" \in DOMAIN call.resume_analysis.work_history[3]
    /\ \A i \in {4, 5} :
          /\ "duration_months" \in DOMAIN call.resume_analysis.work_history[i]
          /\ call.resume_analysis.work_history[i].duration_months = 12
    /\ FlagsOfType("job_hopping") = {}

\* C14: the total_penalty reported by the red-flag detector is the smaller
\* of 0.25 and the sum of the penalties of the detected flags, so it lies in
\* [0, 0.25]; each of the flag types job_hopping, employment_gaps and
\* over_qualification is detected at most once per resume.
C14_PenaltyCappedFlagsOnce ==
    RedFlagsReturned =>
        LET flags == call.out.flags_detected
            cents == [k \in 1..Len(flags) |->
                        IF flags[k].type = "job_hopping" THEN 15
                        ELSE IF flags[k].type = "employment_gaps" THEN 8 ELSE 5]
            sum == SumSeq(cents)
        IN  /\ \A k \in 1..Len(flags) :
                  /\ flags[k].type \in {"job_hopping", "employment_gaps", "over_qualification"}
                  /\ flags[k].penalty = R(cents[k], 100)
            /\ call.out.total_penalty = R(IF sum < 25 THEN sum ELSE 25, 100)
            /\ RGe(call.out.total_penalty, I(0))
            /\ RLe(call.out.total_penalty, R(25, 100))
            /\ \A type \in {"job_hopping", "employment_gaps", "over_qualification"} :
                  Cardinality(FlagsOfType(type)) <= 1

\* a resume with three short jobs, a gap after every job and 16 years of
\* experience: the three flags sum to 0.28 and 0.25 is reported
C14_Witness ==
    /\ RedFlagsReturned
    /\ Len(call.resume_analysis.work_history) = 4
    /\ \A i \in 1..4 : call.resume_analysis.work_history[i].end_date = "2022-02 gap"
    /\ Len(call.out.flags_detected) = 3
    /\ call.out.total_penalty = R(25, 100)

-----------------------------------------------------------------------------
(* Properties of the score aggregator                                      *)

AggregateReturned == call.fn = "calculate_enhanced_weighted_scores" /\ call.done

\* C13: the final score is the role-weighted sum of the four pillar scores
\* (base weight times the role's multiplier, divided by the total of the
\* four) times (1 - total red-flag penalty), clamped to [0,100]: with the
\* job-hopping penalty 0.15 alone it is the weighted sum times 0.85, it never
\* exceeds the score of the same pillars without penalty, and with zero
\* penalty and four equal pillar scores s it is s, for every role.
C13_FinalScoreFormula ==
    AggregateReturned =>
        LET m == get_role_weight_adjustments(call.detected_role)
            w1 == RMul(engine.base_weights.required_skills, m.skills_multiplier)
            w2 == RMul(engine.base_weights.experience, m.experience_multiplier)
            w3 == RMul(engine.base_weights.education, m.education_multiplier)
            w4 == RMul(engine.base_weights.additional_qualifications, m.additional_multiplier)
            total == RAdd(RAdd(w1, w2), RAdd(w3, w4))
            s1 == call.detailed_scoring.required_skills_score
            s2 == call.detailed_scoring.experience_score
            s3 == call.detailed_scoring.education_score
            s4 == call.detailed_scoring.additional_qualifications_score
            weighted == RDiv(RAdd(RAdd(RMul(s1, w1), RMul(s2, w2)),
                                  RAdd(RMul(s3, w3), RMul(s4, w4))), total)
            penalty == call.red_flag_analysis.total_penalty
            penalised == RMul(weighted, RSub(I(1), penalty))
        IN  /\ call.out.base_score = weighted
            /\ call.out.overall_score =
                  (IF RGt(penalised, I(100)) THEN I(100)
                   ELSE IF RLt(penalised, I(0)) THEN I(0) ELSE penalised)
            /\ penalty = R(15, 100) => call.out.overall_score = RMul(weighted, R(85, 100))
            /\ RLe(call.out.overall_score,
                   calculate_enhanced_weighted_scores(
                       call.detailed_scoring, [total_penalty |-> I(0)],
                       call.detected_role).overall_score)
            /\ (penalty = I(0) /\ s2 = s1 /\ s3 = s1 /\ s4 = s1) =>
                  call.out.overall_score = s1

\* unequal pillar scores under the backend role with the job-hopping penalty
\* alone: the final score is 0.85 of the weighted sum and below it
C13_Witness ==
    /\ AggregateReturned
    /\ call.detected_role = "backend_developer"
    /\ call.detailed_scoring.required_skills_score = I(100)
    /\ call.detailed_scoring.experience_score = R(145, 2)
    /\ call.detailed_scoring.education_score = I(10)
    /\ call.detailed_scoring.additional_qualifications_score = I(100)
    /\ call.red_flag_analysis.total_penalty = R(15, 100)
    /\ call.out.overall_score = RMul(call.out.base_score, R(85, 100))
    /\ RLt(call.out.overall_score, call.out.base_score)

-----------------------------------------------------------------------------
(* Properties of the batch                                                 *)

\* the scores of the entries of the batch result that carry no error marker
NonErrorScores ==
    LET entries == SelectSeq(batchResult.results, LAMBDA r : "error" \notin DOMAIN r)
    IN  [k \in 1..Len(entries) |-> entries[k].overall_score]

\* C15: the batch's average_score is the mean, rounded to one decimal, of
\* overall_score over exactly the entries without an error marker, and 0
\* when there is none: every successfully scored resume counts, whatever
\* its score, and no error entry does.
C15_AverageOverNonErrorEntries ==
    pc = "done" =>
        batchResult.average_score =
            IF NonErrorScores = <<>> THEN I(0)
            ELSE Round1(RDiv(RSumSeq(NonErrorScores), I(Len(NonErrorScores))))

\* the entries of the batch result, their number, and the positions of the
\* entries with a positive score among the first five
BatchEntries == batchResult.results

PositiveAmongFirstFive ==
    {i \in 1..Min(5, Len(BatchEntries)) : RGt(BatchEntries[i].overall_score, I(0))}

\* the position of a file in the submitted list
SubmittedAt(filename) ==
    CHOOSE i \in 1..Len(resumeDataList) : resumeDataList[i].filename = filename

\* what the batch result has whatever the reading of "error entries last":
\* one entry per submitted resume, scores in non-increasing order, error
\* entries scored 0, counts that add up, and top_candidates the entries with a
\* positive score among the first five, in order
BatchResultShape ==
    /\ Len(BatchEntries) = Len(resumeDataList)
    /\ \A i \in 1..Len(resumeDataList) :
          Cardinality({k \in 1..Len(BatchEntries) :
                          BatchEntries[k].filename = resumeDataList[i].filename}) = 1
    /\ \A i \in 1..Len(BatchEntries) : \A j \in i..Len(BatchEntries) :
          RGe(BatchEntries[i].overall_score, BatchEntries[j].overall_score)
    /\ \A i \in 1..Len(BatchEntries) :
          "error" \in DOMAIN BatchEntries[i] => BatchEntries[i].overall_score = I(0)
    /\ batchResult.total_resumes = Len(BatchEntries)
    /\ batchResult.processed_successfully + batchResult.failed_resumes
          = batchResult.total_resumes
    /\ batchResult.failed_resumes
          = Cardinality({i \in 1..Len(BatchEntries) : "error" \in DOMAIN BatchEntries[i]})
    /\ Len(batchResult.top_candidates) = Cardinality(PositiveAmongFirstFive)
    /\ \A k \in 1..Len(batchResult.top_candidates) :
          /\ k \in PositiveAmongFirstFive
          /\ batchResult.top_candidates[k] = BatchEntries[k]

\* C16 as stated: the batch result lists exactly one entry per submitted
\* resume, in non-increasing order of overall_score with the error entries
\* (scored 0) last, i.e. no entry without an error marker comes after an
\* error entry; processed_successfully + failed_resumes = total_resumes =
\* number of entries; top_candidates is the sub-list of the first five
\* entries whose score is positive.
C16_ErrorEntriesLast ==
    pc = "done" =>
        /\ BatchResultShape
        /\ \A i \in 1..Len(BatchEntries) : \A j \in i..Len(BatchEntries) :
              "error" \in DOMAIN BatchEntries[i] => "error" \in DOMAIN BatchEntries[j]

\* C16, amended: one entry per submitted resume, in non-increasing order of
\* overall_score; the error entries are scored 0, so that every entry after
\* an error entry is scored 0, and entries scored 0 keep their submission
\* order, with or without an error marker; the counts add up and
\* top_candidates is the sub-list of the first five entries whose score is
\* positive.
C16_RankedByScoreErrorsAtZero ==
    pc = "done" =>
        /\ BatchResultShape
        /\ \A i \in 1..Len(BatchEntries) : \A j \in i..Len(BatchEntries) :
              "error" \in DOMAIN BatchEntries[i] => BatchEntries[j].overall_score = I(0)
        /\ \A k \in 1..Len(BatchEntries) : \A l \in k..Len(BatchEntries) :
              BatchEntries[k].overall_score = BatchEntries[l].overall_score
              => SubmittedAt(BatchEntries[k].filename) <= SubmittedAt(BatchEntries[l].filename)

\* a batch of more than five resumes with an error entry, a positive score
\* outside the first five, and entries of different positive scores
C16_Witness ==
    /\ pc = "done"
    /\ Len(BatchEntries) > 5
    /\ \E i \in 1..Len(BatchEntries) : "error" \in DOMAIN BatchEntries[i]
    /\ Len(batchResult.top_candidates) = 5
    /\ \E i \in 1..Len(BatchEntries) :
          /\ i > 5
          /\ RGt(BatchEntries[i].overall_score, I(0))
          /\ RLt(BatchEntries[i].overall_score, BatchEntries[1].overall_score)
    /\ SortedByScore(resultsList) = resultsList
    /\ batchResult.results # [i \in 1..Len(calls) |->
                                IF calls[i].returned.raised
                                THEN error_entry(calls[i].resume_data.filename,
                                                 calls[i].returned.message)
                                ELSE calls[i].returned.value]

-----------------------------------------------------------------------------
(* Properties of the role classifier                                       *)

RoleReturned == call.fn = "detect_role_type" /\ call.done

\* the five counts of the job of the call, in the order frontend, backend,
\* devops, data, mobile
CountsOfCall ==
    [t \in {"f", "b", "d", "a", "m"} |->
        count_job_requirements(
            CASE t = "f" -> frontend_techs [] t = "b" -> backend_techs
              [] t = "d" -> devops_techs [] t = "a" -> data_techs
              [] t = "m" -> mobile_techs,
            call.job_analysis.required_skills, combined_text(call.job_analysis))]

\* the text of the job of the call contains an explicit multi-stack phrase
ExplicitPhraseInCall ==
    \E phrase \in {"full stack", "fullstack", "full-stack", "end-to-end", "end to end",
                   "frontend and backend", "backend and frontend",
                   "front-end and back-end", "both frontend and backend",
                   "across the stack"} :
        SubstringOf(phrase, combined_text(call.job_analysis))

\* C17: if the job text contains an explicit multi-stack phrase, the role
\* classifier returns fullstack_developer whatever the frontend, backend,
\* devops, data and mobile counts are.
C17_ExplicitPhraseWins ==
    (RoleReturned /\ ExplicitPhraseInCall) => call.out = "fullstack_developer"

\* an explicit phrase in a job whose counts alone name a data scientist
C17_Witness ==
    /\ RoleReturned
    /\ ExplicitPhraseInCall
    /\ CountsOfCall["a"] >= 4
    /\ CountsOfCall["f"] = 0
    /\ CountsOfCall["b"] = 0
    /\ call.out = "fullstack_developer"

\* the first rule that applies to the counts, in the order of the rules
FirstRuleOf(f, b, d, a, m) ==
    CASE f >= 2 /\ b >= 2 -> "fullstack_developer"
      [] OTHER ->
    CASE a >= 4 -> "data_scientist"
      [] OTHER ->
    CASE m >= 3 -> "mobile_developer"
      [] OTHER ->
    CASE d >= 4 /\ f + b < 4 -> "devops_engineer"
      [] OTHER ->
    CASE b >= 4 /\ f < 2 -> "backend_developer"
      [] OTHER ->
    CASE f >= 4 /\ b < 2 -> "frontend_developer"
      [] OTHER ->
    CASE b > f -> "backend_developer"
      [] OTHER ->
    CASE f > b -> "frontend_developer"
      [] OTHER ->
    CASE f = b /\ b >= 1 -> "fullstack_developer"
      [] f = 0 /\ b = 0 -> "general_developer"

\* C18: without an explicit multi-stack phrase, the role returned for the
\* counts (f, b, d, a, m) is that of the first rule that applies, in the
\* order fullstack (f>=2, b>=2), data (a>=4), mobile (m>=3), devops (d>=4,
\* f+b<4), backend (b>=4, f<2), frontend (f>=4, b<2), backend (b>f),
\* frontend (f>b), fullstack (f=b>=1), general (f=b=0); with or without a
\* phrase the classifier returns one of the seven archetypes.
C18_FirstApplicableRule ==
    RoleReturned =>
        /\ call.out \in {"frontend_developer", "backend_developer", "fullstack_developer",
                         "devops_engineer", "data_scientist", "mobile_developer",
                         "general_developer"}
        /\ ~ExplicitPhraseInCall =>
              call.out = FirstRuleOf(CountsOfCall["f"], CountsOfCall["b"], CountsOfCall["d"],
                                     CountsOfCall["a"], CountsOfCall["m"])

\* no phrase, four devops and four backend requirements: the devops rule is
\* passed over and the backend rule applies
C18_Witness ==
    /\ RoleReturned
    /\ ~ExplicitPhraseInCall
    /\ CountsOfCall["d"] = 4
    /\ CountsOfCall["b"] = 4
    /\ CountsOfCall["f"] = 0
    /\ CountsOfCall["a"] < 4
    /\ CountsOfCall["m"] < 3
    /\ call.out = "backend_developer"

\* the calls of the batch that returned a result
ScoredCalls == {i \in 1..Len(calls) : ~calls[i].returned.raised}

\* C19: the detected role, and with it the category weights applied, depends
\* only on the job profile: any two resumes scored against the same job are
\* scored under the same detected role and the same role weights, whatever
\* the resume profiles contain.
C19_RoleDependsOnJobOnly ==
    \A i \in ScoredCalls : \A j \in ScoredCalls :
        /\ calls[i].returned.value.enhanced_skill_analysis.detected_role
             = calls[j].returned.value.enhanced_skill_analysis.detected_role
        /\ calls[i].returned.value.enhanced_skill_analysis.role_weights_applied
             = calls[j].returned.value.enhanced_skill_analysis.role_weights_applied

\* a Python and Django candidate and a candidate with an empty profile scored
\* against the full-stack job, both as full-stack developers
C19_Witness ==
    /\ pc = "done"
    /\ jobAnalysis = job_fullstack
    /\ \E i \in ScoredCalls : \E j \in ScoredCalls :
          /\ calls[i].resume_data.text = "strong"
          /\ calls[j].resume_data.text = "unreadable"
          /\ calls[i].resume_analysis # calls[j].resume_analysis
          /\ calls[i].returned.value.enhanced_skill_analysis.detected_role
               = "fullstack_developer"
          /\ calls[j].returned.value.enhanced_skill_analysis.detected_role
               = "fullstack_developer"

-----------------------------------------------------------------------------
(* Properties of the recommendation                                        *)

RecommendReturned == call.fn = "get_enhanced_recommendation" /\ call.done

\* the tier a recommendation text names
TierOfText ==
    [t \in {"Exceptional candidate - Immediate interview strongly recommended",
            "Exceptional match, immediate interview"} |-> "exceptional"]
    @@ [t \in {"Strong candidate - High priority for interview",
               "Strong match, high priority"} |-> "strong"]
    @@ [t \in {"Good candidate - Recommend for interview",
               "Good match, consider for interview"} |-> "good"]
    @@ [t \in {"Moderate fit - Review carefully, consider phone screen",
               "Moderate match, review carefully"} |-> "moderate"]
    @@ [t \in {"Below requirements - Consider only if candidate pool is limited",
               "Poor fit - Not recommended for this position",
               "Weak match, likely not suitable"} |-> "weak"]

\* the text that /scoring-info documents for a score: that of the range
\* whose lower bound is the greatest one not above the score
DocumentedText(score) ==
    LET k == CHOOSE i \in 1..Len(score_ranges) :
                /\ RGe(score, I(score_ranges[i][1]))
                /\ \A j \in 1..Len(score_ranges) :
                      RGe(score, I(score_ranges[j][1]))
                      => score_ranges[j][1] <= score_ranges[i][1]
    IN  score_ranges[k][3]

\* C20: one threshold table is applied: for every score in [0,100] the
\* tier of the recommendation that the scorer returns is the tier that the
\* /scoring-info endpoint documents for that score (90-100 exceptional,
\* 75-89 strong, 60-74 good, 45-59 moderate, 0-44 weak).
C20_OneThresholdTable ==
    RecommendReturned =>
        TierOfText[call.out] = TierOfText[DocumentedText(call.overall_score)]

-----------------------------------------------------------------------------
(* Properties of the text endpoints                                        *)

EndpointReturned ==
    /\ call.fn \in {"score_resume_from_text", "enhance_job_description",
                    "analyze_job_description", "analyze_resume_text"}
    /\ call.done

\* a required text field of the request of the call is blank
BlankRequiredText ==
    IF call.fn = "score_resume_from_text"
    THEN call.resume_text \in {"", "  "} \/ call.job_description \in {"", "  "}
    ELSE call.text \in {"", "  "}

\* C21: the endpoints /score-resume-text, /analyze-job,
\* /enhance-job-description and /analyze-resume-text answer a blank required
\* text field with status 400 and without calling the AI collaborator; the
\* validation error is never turned into a 500 response.
C21_BlankTextAnswered400 ==
    (EndpointReturned /\ BlankRequiredText) =>
        /\ call.out.status_code = 400
        /\ call.out.ai_calls = 0

-----------------------------------------------------------------------------
(* Properties of the pipeline under a failing step                         *)

\* the calls of the batch in which exactly one pipeline step raised
SingleFaultCalls == {i \in 1..Len(calls) : Cardinality(calls[i].resume_data.faults) = 1}

\* the pillar of the score breakdown that a failing step leaves at its default
PillarOfStep ==
    [skills |-> "required_skills", experience |-> "experience_level",
     education |-> "education", additional |-> "additional_qualifications"]

\* C22: if exactly one pipeline step (skill matching, experience scoring,
\* education scoring, additional-qualifications scoring, red-flag detection,
\* final aggregation or insight generation) raises, score_resume_against_job
\* still returns a result, with that step's output replaced by its default
\* (score 0, no flags): no single scorer failure turns a resume into a batch
\* error entry.
C22_SingleStepFailureStillScored ==
    \A i \in SingleFaultCalls :
        /\ ~calls[i].returned.raised
        /\ \A step \in calls[i].resume_data.faults \cap DOMAIN PillarOfStep :
              calls[i].returned.value.score_breakdown[PillarOfStep[step]] = I(0)
        /\ "red_flags" \in calls[i].resume_data.faults =>
              calls[i].returned.value.red_flag_analysis.flags_detected = <<>>
        /\ pc = "done" =>
              \A k \in 1..Len(batchResult.results) :
                 batchResult.results[k].filename = calls[i].resume_data.filename
                 => "error" \notin DOMAIN batchResult.results[k]

-----------------------------------------------------------------------------
(* Properties of the experience scorer                                     *)

BaseExperienceReturned == call.fn = "calculate_base_experience_score" /\ call.done

\* the staircase on r relevant years and m required years, in tenths of a
\* year where the steps are fractions of m
StaircaseOf(r, m) ==
    CASE m = 0 -> 85
      [] m # 0 /\ r >= m + 3 -> 95
      [] m # 0 /\ r < m + 3 /\ r >= m + 1 -> 90
      [] m # 0 /\ r < m + 1 /\ r >= m -> 85
      [] m # 0 /\ r < m /\ 10 * r >= 8 * m -> 75
      [] m # 0 /\ r < m /\ 10 * r < 8 * m /\ 10 * r >= 6 * m -> 65
      [] OTHER -> 45

\* C23: _calculate_base_experience_score(r, m) returns 85 when m = 0 and
\* otherwise 95 if r >= m+3, 90 if r >= m+1, 85 if r >= m, 75 if r >= 0.8*m,
\* 65 if r >= 0.6*m, else 45; for every fixed m it is non-decreasing in r.
C23_ExperienceStaircase ==
    BaseExperienceReturned =>
        /\ call.out = StaircaseOf(call.relevant_years, call.min_required)
        /\ \A more \in call.relevant_years..(MaxExperience + 3) :
              calculate_base_experience_score(more, call.min_required) >= call.out

\* five required years and four relevant ones: the step at 80%
C23_Witness ==
    /\ BaseExperienceReturned
    /\ call.min_required = 5
    /\ call.relevant_years = 4
    /\ call.out = 75
    /\ calculate_base_experience_score(3, 5) = 65
    /\ calculate_base_experience_score(2, 5) = 45
    /\ calculate_base_experience_score(8, 5) = 95

ExperienceReturned == call.fn = "score_enhanced_experience" /\ call.done

\* C24: the base experience score is computed from the profile's
\* relevant_years whenever the profile supplies it, including
\* relevant_years = 0: a candidate with 0 relevant years facing a positive
\* minimum_experience gets the lowest step (45) whatever their total_years.
C24_RelevantYearsUsedWhenSupplied ==
    (ExperienceReturned /\ "relevant_years" \in DOMAIN call.resume_analysis.experience_analysis)
    => call.out.base_score =
          I(StaircaseOf(call.resume_analysis.experience_analysis.relevant_years,
                        call.job_analysis.minimum_experience))

-----------------------------------------------------------------------------
(* Properties of the education scorer                                      *)

EducationReturned == call.fn = "score_education_match" /\ call.done

\* the degrees and certificates held and the requirements of the call
HeldDegrees == call.resume_analysis.education.degrees
HeldCerts == call.resume_analysis.education.certifications
EducationRequired == call.job_analysis.education_requirements

\* the ordinal of a level name, and its value for a name off the scale
OrdinalOf(level, otherwise) ==
    CASE level = "Bachelor's" -> 3 [] level = "Master's" -> 4 [] level = "PhD" -> 5
      [] OTHER -> otherwise

HeldOrdinal(i) ==
    OrdinalOf(IF "level" \in DOMAIN HeldDegrees[i] THEN HeldDegrees[i].level ELSE "", 0)

\* the position of the highest held degree: the first of the greatest level
HighestHeld ==
    CHOOSE i \in 1..Len(HeldDegrees) :
        /\ \A j \in 1..Len(HeldDegrees) : HeldOrdinal(j) <= HeldOrdinal(i)
        /\ \A j \in 1..(i - 1) : HeldOrdinal(j) < HeldOrdinal(i)

\* the held degree at position i has a field that contains a required field
FieldMatchAt(i) ==
    /\ "field" \in DOMAIN HeldDegrees[i]
    /\ \E k \in 1..Len(EducationRequired.field_of_study) :
          SubstringOf(Lower(EducationRequired.field_of_study[k]), Lower(HeldDegrees[i].field))

\* the degree component without the field bonus
DegreeLevelComponent ==
    IF HeldDegrees = <<>>
    THEN (IF EducationRequired.required_degree = None THEN 70 ELSE 10)
    ELSE IF EducationRequired.required_degree = None THEN 50
    ELSE IF HeldOrdinal(HighestHeld) >= OrdinalOf(EducationRequired.required_degree, 3) THEN 70
    ELSE IF 40 - 15 * (OrdinalOf(EducationRequired.required_degree, 3)
                       - HeldOrdinal(HighestHeld)) > 0
    THEN 40 - 15 * (OrdinalOf(EducationRequired.required_degree, 3) - HeldOrdinal(HighestHeld))
    ELSE 0

\* 30 times the fraction of the required certificates found among the
\* candidate's
CertificationComponent ==
    IF EducationRequired.certifications = <<>> THEN I(0)
    ELSE R(30 * Cardinality({k \in 1..Len(EducationRequired.certifications) :
                \E c \in 1..Len(HeldCerts) :
                    SubstringOf(Lower(EducationRequired.certifications[k]),
                                Lower(HeldCerts[c].name))}),
           Len(EducationRequired.certifications))

\* C25 as stated: the education score is min(100, degree component +
\* certification component), with the level part of the degree component
\* (70, the decaying partial score, 50, 70 or 10), plus 20 for a field-of-
\* study match of a held degree, whichever of the held degrees it is, and
\* 30 times the fraction of required certifications found.
C25_FieldMatchOfAnyHeldDegree ==
    EducationReturned =>
        call.out.score =
            RMin(I(100),
                 RAdd(I(DegreeLevelComponent
                        + (IF \E i \in 1..Len(HeldDegrees) : FieldMatchAt(i)
                           THEN 20 ELSE 0)),
                      CertificationComponent))

\* C25, amended: the same, with the 20 points given for a field-of-study
\* match of the highest held degree only (the first of the degrees of the
\* greatest level); a level name off the scale counts 0 when held and 3 when
\* required.
C25_EducationScoreFormula ==
    EducationReturned =>
        call.out.score =
            RMin(I(100),
                 RAdd(I(DegreeLevelComponent
                        + (IF HeldDegrees # <<>> /\ FieldMatchAt(HighestHeld)
                           THEN 20 ELSE 0)),
                      CertificationComponent))

\* a Bachelor's degree in the required field against a required PhD, with one
\* of two required certificates: 40 - 30 + 20 + 15 = 45
C25_Witness ==
    /\ EducationReturned
    /\ HeldDegrees = <<[level |-> "Bachelor's", field |-> "Computer Science"]>>
    /\ EducationRequired.required_degree = "PhD"
    /\ EducationRequired.field_of_study = <<"Computer Science">>
    /\ EducationRequired.certifications = <<"AWS Certified", "PMP">>
    /\ HeldCerts # <<>>
    /\ call.out.score = I(45)

\* C30: when the job requires a degree, a candidate who holds any degree (of
\* any level, recognised or not) never receives a lower education score than
\* a candidate who holds no degree and is otherwise identical.
C30_DegreeNeverHurts ==
    (EducationReturned /\ EducationRequired.required_degree # None /\ HeldDegrees # <<>>)
    => RGe(call.out.score,
           score_education_match([education |-> [degrees |-> <<>>,
                                                 certifications |-> HeldCerts]],
                                 call.job_analysis).score)

-----------------------------------------------------------------------------
(* Properties of the risk level                                            *)

\* the sum, in hundredths, of the penalties of the returned flags
SummedCents ==
    SumSeq([k \in 1..Len(call.out.flags_detected) |->
              IF call.out.flags_detected[k].type = "job_hopping" THEN 15
              ELSE IF call.out.flags_detected[k].type = "employment_gaps" THEN 8 ELSE 5])

\* C26: the risk level reported with the red flags is high when the summed
\* penalty is >= 0.20, medium when >= 0.10, low when > 0 and minimal
\* otherwise; has_concerns is true exactly when at least one flag was
\* detected, which is exactly when the risk level is not minimal and the
\* applied penalty is positive.
C26_RiskLevelOfSummedPenalty ==
    RedFlagsReturned =>
        /\ call.out.risk_level = (IF SummedCents >= 20 THEN "high"
                                  ELSE IF SummedCents >= 10 THEN "medium"
                                  ELSE IF SummedCents > 0 THEN "low" ELSE "minimal")
        /\ call.out.has_concerns <=> Len(call.out.flags_detected) >= 1
        /\ Len(call.out.flags_detected) >= 1
              <=> (call.out.risk_level # "minimal" /\ RGt(call.out.total_penalty, I(0)))

\* three short jobs without a gap and 16 years of experience: job_hopping
\* and over_qualification sum to exactly 0.20 and the level is high
C26_Witness ==
    /\ RedFlagsReturned
    /\ Len(call.out.flags_detected) = 2
    /\ SummedCents = 20
    /\ call.out.total_penalty = R(20, 100)
    /\ call.out.risk_level = "high"
    /\ call.out.has_concerns

-----------------------------------------------------------------------------
(* Properties of the zero-skill floor                                      *)

\* the score of category c for the same job and role when the candidate
\* declares no skill in c
ScoreWithNothingDeclaredIn(c) ==
    ItemValue(score_enhanced_skills_match(
                  [skills_by_category |->
                      [call.resume_analysis.skills_by_category EXCEPT ![c] = <<>>]],
                  call.job_analysis, call.detected_role).category_coverage, c)

\* C27: the zero-skill floor is a lower bound: in a category that has
\* requirements, a candidate who declares at least one skill in that
\* category never receives a lower category score than the floor (0, 10 or
\* 50 by weight tier) that a candidate declaring no skill in that category
\* receives for the same job and role.
C27_FloorIsLowerBound ==
    SkillsReturned =>
        \A i \in 1..Len(call.out.role_weights_applied) :
            LET c == call.out.role_weights_applied[i][1]
            IN  (/\ RGt(call.out.role_weights_applied[i][2], I(0))
                 /\ c \in DOMAIN call.resume_analysis.skills_by_category
                 /\ RequiredIn(c) # <<>>
                 /\ DeclaredIn(c) # <<>>) =>
                    /\ ScoreWithNothingDeclaredIn(c) \in {I(0), I(10), I(50)}
                    /\ RGe(ItemValue(call.out.category_coverage, c),
                           ScoreWithNothingDeclaredIn(c))

-----------------------------------------------------------------------------
\* C28: when the candidate declares a skill whose name equals the required
\* skill name (ignoring case and surrounding whitespace), that required
\* skill is matched with match_type = exact and multiplier 1.0, never as
\* synonym or related; this holds for every name, including non-canonical
\* variants of the synonym table such as "js" or "k8s".
C28_SameNameMatchesExact ==
    MatchReturned =>
        \A r \in 1..Len(call.required_skills) :
            \A i \in 1..Len(call.candidate_skills) :
                LET required_skill == call.required_skills[r]
                    declared == skill_item_fields(call.candidate_skills[i]).name
                    m == call.out.matches
                IN  (/\ Strip(declared) # ""
                     /\ Strip(Lower(declared)) = Strip(Lower(required_skill))) =>
                        /\ \E k \in 1..Len(m) : m[k].skill = required_skill
                        /\ \A k \in 1..Len(m) :
                              m[k].skill = required_skill =>
                                /\ m[k].match_type = "exact"
                                /\ m[k].score =
                                     RMin(I(proficiency_base_score(m[k].proficiency)
                                            + Min(2 * m[k].years_experience, 10)), I(100))

-----------------------------------------------------------------------------
\* C29: in every returned result the recommendation is the tier of the
\* overall_score reported in that same result (the score as rounded to one
\* decimal): no result reports a score at or above a tier threshold together
\* with the recommendation of the tier below it.
C29_RecommendationOfReportedScore ==
    \A i \in 1..Len(calls) :
        ~calls[i].returned.raised =>
            calls[i].returned.value.recommendation
                = get_enhanced_recommendation(calls[i].returned.value.overall_score)

=============================================================================
